---------------------------- MODULE Spec2Model ----------------------------
(***************************************************************************)
(* The producer/consumer pipeline of pngcore: pngcore_concurrent_create,   *)
(* pngcore_concurrent_run, pngcore_producer, pngcore_consumer and the ring *)
(* buffer pngcore_cbuf_add / pngcore_cbuf_get.  Each worker is a forked    *)
(* process; every access to shared memory or to a semaphore is one step.   *)
(***************************************************************************)
EXTENDS Integers, Sequences, FiniteSets, Bags, TLC

(***************************************************************************)
(* Bounds of the model.  TOTAL_IMAGES is 50 in pngcore_types.h; the model  *)
(* runs the same code with a smaller strip count.  The configuration       *)
(* (buffer_size, num_producers, num_consumers) ranges over 1..Max*.        *)
(***************************************************************************)
TOTAL_IMAGES == 3
MaxBufferSize == 2
MaxProducers == 2
MaxConsumers == 2

(* Program constants (pngcore_types.h) *)
BUF_SIZE == 1048576
\* TOTAL_IMAGES as the source defines it
SOURCE_TOTAL_IMAGES == 50
INF_SIZE == 6 * (400 * 4 + 1)

Producers == 1..MaxProducers
Consumers == 1..MaxConsumers
SeqNums == 0..(TOTAL_IMAGES - 1)

VARIABLES
  buffer_size, num_producers, num_consumers,   \* proc configuration
  head, tail, count, data,                     \* pngcore_cbuf_t in shared memory
  mutex, empty, filled,                        \* sems[0], sems[1], sems[2]
  next_entry_to_produce, entries_produced, entries_consumed,
  idat_buf,                                    \* raster, one cell per INF_SIZE block
  ppc, entry_num,                              \* producer: position, claimed number
  pentry,                                      \* producer: local entry
  cpc, centry,                                 \* consumer: position, local entry
  run,                                         \* pngcore_concurrent_run: position
  claimLog,                                    \* history: sequence numbers claimed, in order
  dropped,                                     \* history: numbers whose fetch failed
  fetches,                                     \* history: fetch calls per number
  putLog, getLog,                              \* history: bags of records put / got
  fifo,                                        \* history: records put and not yet got, in put order
  placed,                                      \* history: inflations into the raster per number
  reach,                                       \* history: end of the bytes written for each number
  in_buf,                                      \* a byte buffer handed to the PNG functions
  out,                                         \* what the PNG function called on in_buf returned
  image,                                       \* a pngcore_png_t handed to the PNG functions
  http                                         \* a pngcore_http_response_t being received

cbuf == <<head, tail, count, data>>
sems == <<mutex, empty, filled>>
config == <<buffer_size, num_producers, num_consumers>>
counters == <<next_entry_to_produce, entries_produced, entries_consumed>>
plocal == <<ppc, entry_num, pentry>>
clocal == <<cpc, centry>>
history == <<claimLog, dropped, fetches, putLog, getLog, fifo, placed, reach>>
png_io == <<in_buf, out, image, http>>
vars == <<config, cbuf, sems, counters, idat_buf, plocal, clocal, run, history, png_io>>

(***************************************************************************)
(* A fragment record (pngcore_cbuf_entry_t): sequence_num, and the body    *)
(* bytes, represented by the fragment the server encoded in them (frag)    *)
(* and whether they are a parseable three-chunk PNG (kind).  Shared memory *)
(* from shmget is zero-filled: a slot never written is ZeroEntry.          *)
(***************************************************************************)
ZeroEntry == [sequence_num |-> 0, length |-> 0, frag |-> -1, kind |-> "none"]
NoEntry == [sequence_num |-> -1, length |-> 0, frag |-> -1, kind |-> "none"]

(* The inflated bytes of fragment k (a mock fetcher's pattern(k)); 0 is a  *)
(* zeroed block (memset in pngcore_concurrent_create).                     *)
pattern(k) == k + 1


(* A zlib stream that ends early or is corrupt leaves an unspecified prefix *)
(* of the block written (pngcore_mem_inflate copies each chunk it decoded). *)
Partial == -1

\* A block overwritten by the bytes inflated for the block before it
Spill == -2

\* Bodies a server sends: a well-formed fragment PNG, or bytes that do not
\* parse.  ("badz", a PNG whose IDAT is not a complete zlib stream, is
\* understood by Parses and Inflates below.)
Kinds == {"png", "junk"}

(***************************************************************************)
(* pngcore_http_get: NULL on a transport failure, else a response whose    *)
(* data->seq is -1 (no fragment header) or the number the server sent, and *)
(* whose body is the server's fragment of that number.                     *)
(***************************************************************************)
NullResponse == [seq |-> -2, kind |-> "none"]
Responses == {NullResponse} \cup [seq : (-1)..(TOTAL_IMAGES - 1), kind : Kinds]

(* A mock fetcher that serves fragment k as a well-formed PNG of pattern(k) *)
MockResponse(k) == [seq |-> k, kind |-> "png"]

\* What the specification calls a failed fetch for claimed number k: a
\* transport failure, or a response whose sequence number differs from k
TransportFailure(response, k) == response = NullResponse \/ response.seq # k

(***************************************************************************)
(* The PNG functions on byte buffers: pngcore_raw.c (framing),             *)
(* part_001:200-435 (pngcore_parse_raw and the three chunk parsers) and    *)
(* pngcore_core.c (pngcore_load_buffer and the accessors).  A buffer is a  *)
(* sequence of bytes, a C offset i is element i + 1 of it.  A function     *)
(* that takes an Error *error returns [ret, code]: its result and the      *)
(* error->code it leaves behind; a NULL pointer is the record NULL.        *)
(***************************************************************************)
CHUNK_LEN_SIZE == 4
CHUNK_TYPE_SIZE == 4
CHUNK_CRC_SIZE == 4
DATA_IHDR_SIZE == 13
PNG_SIG_SIZE == 8
MAX_IMG_STRIP_SIZE == 10000

\* 0x89504E470D0A1A0A, byte by byte
PNG_SIG == <<137, 80, 78, 71, 13, 10, 26, 10>>

\* "IHDR", "IDAT", "IEND"
IHDR == <<73, 72, 68, 82>>
IDAT == <<73, 68, 65, 84>>
IEND == <<73, 69, 78, 68>>

NULL == [null |-> TRUE]
NoCall == [call |-> "none"]

\* ErrorCode (pngcore_types.h:40-47)
SUCCESS == "SUCCESS"
ERR == "ERR"
ERR_NOT_A_PNG == "ERR_NOT_A_PNG"
ERR_CRC_MISMATCH == "ERR_CRC_MISMATCH"
ERR_WRONG_CHUNK == "ERR_WRONG_CHUNK"

\* n bytes of buf from C offset at
Bytes(buf, at, n) == SubSeq(buf, at + 1, at + n)

\* pngcore_types.h:61-63.  The four shifted bytes do not overlap, so the
\* bitwise OR is their sum; the result is below 2^32.
from_be_buffer(buf, at) ==
  buf[at + 1] * 16777216 + buf[at + 2] * 65536 + buf[at + 3] * 256 + buf[at + 4]

\* pngcore_png.h:87-96, called on buf + at: the eight bytes, taken as one
\* big-endian U64, equal PNG_SIG
is_pngBroken(buf, at, n) ==
  IF n < PNG_SIG_SIZE THEN FALSE
  ELSE Bytes(buf, at, 4) = SubSeq(PNG_SIG, 1, 4)
is_png(buf, at, n) ==
  IF n < PNG_SIG_SIZE THEN FALSE
  ELSE Bytes(buf, at, PNG_SIG_SIZE) = PNG_SIG

\* pngcore_raw.c:11-16
pngcore_is_png_buf(buf, buf_size, offset) ==
  IF offset + PNG_SIG_SIZE > buf_size THEN FALSE
  ELSE is_png(buf, offset, PNG_SIG_SIZE)

\* pngcore_crc (declared in part_003): a checksum of the bytes, here the
\* position-weighted byte sum modulo 65521
RECURSIVE WeightedSum(_, _)
WeightedSum(bytes, i) ==
  IF i > Len(bytes) THEN 0
  ELSE (i * bytes[i] + WeightedSum(bytes, i + 1)) % 65521
pngcore_crc(bytes) == WeightedSum(bytes, 1)

\* pngcore_raw.c:91  offset + CHUNK_LEN_SIZE + CHUNK_TYPE_SIZE > buf_size
HeaderFits(offset, buf_size) ==
  ~(offset + CHUNK_LEN_SIZE + CHUNK_TYPE_SIZE > buf_size)

\* pngcore_raw.c:119  current_offset + length + CHUNK_CRC_SIZE > buf_size
\* (size_t is 64 bits wide and length is a U32: the sum does not wrap)
ChunkFitsBroken(current_offset, length, buf_size) ==
  ~(current_offset + length + CHUNK_CRC_SIZE >= buf_size)
ChunkFits(current_offset, length, buf_size) ==
  ~(current_offset + length + CHUNK_CRC_SIZE > buf_size)

\* pngcore_raw.c:81-149.  p_data is malloc'ed only for length > 0.
pngcore_load_raw_chunk(buf, buf_size, offset, code) ==
  IF ~HeaderFits(offset, buf_size) THEN [ret |-> NULL, code |-> ERR]
  ELSE LET length == from_be_buffer(buf, offset)
           type == Bytes(buf, offset + CHUNK_LEN_SIZE, CHUNK_TYPE_SIZE)
           current_offset == offset + CHUNK_LEN_SIZE + CHUNK_TYPE_SIZE
       IN  IF ~ChunkFits(current_offset, length, buf_size)
             THEN [ret |-> NULL, code |-> ERR]
             ELSE [ret |-> [length |-> length,
                            type |-> type,
                            p_data |-> Bytes(buf, current_offset, length),
                            crc |-> from_be_buffer(buf, current_offset + length)],
                   code |-> code]

\* pngcore_raw.c:73-75  the offset of the chunk after chunk ch
NextChunkOffset(i_offset, ch) ==
  i_offset + CHUNK_LEN_SIZE + CHUNK_TYPE_SIZE + ch.length + CHUNK_CRC_SIZE

\* pngcore_raw.c:57-76  the loop for (i = 0; i < 3; i++), from chunk i on
RECURSIVE LoadChunks(_, _, _, _, _, _)
LoadChunks(buf, buf_size, i_offset, i, chunks, code) ==
  IF ~(i < 3) THEN [ret |-> [chunks |-> chunks], code |-> code]
  ELSE LET c == pngcore_load_raw_chunk(buf, buf_size, i_offset, code)
       IN  IF c.ret = NULL
             THEN [ret |-> NULL, code |-> IF c.code = SUCCESS THEN ERR ELSE c.code]
             ELSE LoadChunks(buf, buf_size, NextChunkOffset(i_offset, c.ret),
                             i + 1, Append(chunks, c.ret), c.code)

\* pngcore_raw.c:18-79
pngcore_load_raw_png(buf, buf_size, offset, code) ==
  IF offset + PNG_SIG_SIZE > buf_size THEN [ret |-> NULL, code |-> ERR]
  ELSE IF ~is_png(buf, offset, PNG_SIG_SIZE)
         THEN [ret |-> NULL, code |-> ERR_NOT_A_PNG]
         ELSE LoadChunks(buf, buf_size, offset + PNG_SIG_SIZE, 0, <<>>, code)

\* part_001:313-325 (and 356-371): computed_crc != crc over type || payload
CrcMismatch(raw_chunk) ==
  pngcore_crc(raw_chunk.type \o raw_chunk.p_data) # raw_chunk.crc

\* A read of unmapped memory ends the process
SIGSEGV == "SIGSEGV"

\* part_001:258-327.  A CRC mismatch sets error->code and the chunk is
\* returned all the same.  The thirteen reads at raw_chunk->p_data (lines
\* 296-302) are made whatever raw_chunk->length is: they see the payload,
\* then the bytes beyond it in the heap; p_data is NULL for length 0
\* (pngcore_raw.c:141) and reading at it, or past the mapped bytes, ends
\* the process.
parse_ihdr_reading(raw_chunk, code, beyond) ==
  IF raw_chunk = NULL THEN [ret |-> NULL, code |-> ERR_WRONG_CHUNK]
  ELSE IF raw_chunk.type # IHDR THEN [ret |-> NULL, code |-> ERR_WRONG_CHUNK]
  ELSE LET seen == raw_chunk.p_data \o beyond
       IN  IF raw_chunk.length = 0 \/ Len(seen) < DATA_IHDR_SIZE
             THEN [ret |-> NULL, code |-> SIGSEGV]
             ELSE [ret |-> [p_data |-> [width |-> from_be_buffer(seen, 0),
                                        height |-> from_be_buffer(seen, 4),
                                        bit_depth |-> seen[9],
                                        color_type |-> seen[10],
                                        compression |-> seen[11],
                                        filter |-> seen[12],
                                        interlace |-> seen[13]],
                            crc |-> raw_chunk.crc],
                   code |-> IF CrcMismatch(raw_chunk) THEN ERR_CRC_MISMATCH ELSE code]

\* pngcore_parse_ihdr on a chunk whose payload holds all the bytes read
pngcore_parse_ihdr(raw_chunk, code) == parse_ihdr_reading(raw_chunk, code, <<>>)

\* part_001:329-403
pngcore_parse_idat(raw_chunk, code) ==
  IF raw_chunk = NULL THEN [ret |-> NULL, code |-> ERR_WRONG_CHUNK]
  ELSE IF raw_chunk.type # IDAT THEN [ret |-> NULL, code |-> ERR_WRONG_CHUNK]
  ELSE [ret |-> [p_data |-> [length |-> raw_chunk.length,
                             data |-> raw_chunk.p_data],
                 crc |-> raw_chunk.crc],
        code |-> IF CrcMismatch(raw_chunk) THEN ERR_CRC_MISMATCH ELSE code]

\* part_001:405-435.  The CRC of IEND is stored, never verified.
pngcore_parse_iend(raw_chunk, code) ==
  IF raw_chunk = NULL THEN [ret |-> NULL, code |-> ERR_WRONG_CHUNK]
  ELSE IF raw_chunk.type # IEND THEN [ret |-> NULL, code |-> ERR_WRONG_CHUNK]
  ELSE [ret |-> [crc |-> raw_chunk.crc], code |-> code]

\* part_001:218-226 (and 230-238, 242-250): what pngcore_parse_raw does
\* after a chunk parser returned r, with the structure png built so far:
\* "go_on" to the next chunk, or return
AfterChunk(r, png) ==
  IF r.ret = NULL \/ r.code # SUCCESS
    THEN IF r.code = ERR_CRC_MISMATCH
           THEN [go_on |-> FALSE, ret |-> png, code |-> r.code]
           ELSE [go_on |-> FALSE, ret |-> NULL, code |-> r.code]
    ELSE [go_on |-> TRUE, ret |-> png, code |-> r.code]

\* part_001:200-252
pngcore_parse_raw(raw_png, code) ==
  LET png0 == [ihdr |-> NULL, idat |-> NULL, iend |-> NULL]
      i == pngcore_parse_ihdr(raw_png.chunks[1], code)
      png1 == [png0 EXCEPT !.ihdr = i.ret]
      a1 == AfterChunk(i, png1)
  IN  IF ~a1.go_on THEN [ret |-> a1.ret, code |-> a1.code]
      ELSE LET d == pngcore_parse_idat(raw_png.chunks[2], i.code)
               png2 == [png1 EXCEPT !.idat = d.ret]
               a2 == AfterChunk(d, png2)
           IN  IF ~a2.go_on THEN [ret |-> a2.ret, code |-> a2.code]
               ELSE LET e == pngcore_parse_iend(raw_png.chunks[3], d.code)
                        png3 == [png2 EXCEPT !.iend = e.ret]
                        a3 == AfterChunk(e, png3)
                    IN  [ret |-> a3.ret, code |-> a3.code]

\* pngcore_core.c:29-38
convert_error_code(internal_code) ==
  CASE internal_code = SUCCESS -> "PNGCORE_SUCCESS"
    [] internal_code = ERR_NOT_A_PNG -> "PNGCORE_ERR_NOT_PNG"
    [] internal_code = ERR_CRC_MISMATCH -> "PNGCORE_ERR_CRC_MISMATCH"
    [] internal_code = ERR_WRONG_CHUNK -> "PNGCORE_ERR_WRONG_CHUNK"
    [] OTHER -> "PNGCORE_ERR"

\* pngcore_core.c:102-150.  caller_code is what the caller's error->code
\* held before the call: it is written only on the paths that return NULL.
pngcore_load_buffer(buffer, size, caller_code) ==
  IF size = 0 THEN [ret |-> NULL, code |-> "PNGCORE_ERR"]
  ELSE LET raw == pngcore_load_raw_png(buffer, size, 0, SUCCESS)
       IN  IF raw.ret = NULL
             THEN [ret |-> NULL, code |-> convert_error_code(raw.code)]
             ELSE LET simple == pngcore_parse_raw(raw.ret, raw.code)
                  IN  IF simple.ret = NULL
                        THEN [ret |-> NULL, code |-> convert_error_code(simple.code)]
                        ELSE [ret |-> [internal |-> simple.ret], code |-> caller_code]

\* pngcore_core.c:208-226
pngcore_get_width(png) ==
  IF png # NULL /\ png.internal # NULL /\ png.internal.ihdr # NULL
    THEN png.internal.ihdr.p_data.width ELSE 0
pngcore_get_height(png) ==
  IF png # NULL /\ png.internal # NULL /\ png.internal.ihdr # NULL
    THEN png.internal.ihdr.p_data.height ELSE 0
pngcore_get_bit_depth(png) ==
  IF png # NULL /\ png.internal # NULL /\ png.internal.ihdr # NULL
    THEN png.internal.ihdr.p_data.bit_depth ELSE 0
pngcore_get_color_type(png) ==
  IF png # NULL /\ png.internal # NULL /\ png.internal.ihdr # NULL
    THEN png.internal.ihdr.p_data.color_type ELSE 0

(***************************************************************************)
(* Structures: pngcore_create and pngcore_validate (pngcore_core.c), the   *)
(* conversion of a structure to chunks and to the bytes of a file          *)
(* (part_001:441-603), and pngcore_deflate_idat (part_001:651-683).  A     *)
(* pngcore_png_t is [internal |-> s], s a pngcore_simple_png_t with the    *)
(* fields pngcore_parse_raw gives it.                                      *)
(***************************************************************************)
PNGCORE_COLOR_RGBA == 6

\* pngcore_core.c:180-202.  pngcore_new_simple_png (part_001:149-198) leaves
\* the three crc fields as malloc returned them: garbage
pngcore_create(width, height, bit_depth, color_type, garbage) ==
  [internal |->
     [ihdr |-> [p_data |-> [width |-> width, height |-> height,
                            bit_depth |-> bit_depth, color_type |-> color_type,
                            compression |-> 0, filter |-> 0, interlace |-> 0],
                crc |-> garbage],
      idat |-> [p_data |-> [length |-> 0, data |-> <<>>], crc |-> garbage],
      iend |-> [crc |-> garbage]]]

\* pngcore_core.c:328-333
ValidBitDepthBroken(bit_depth) == bit_depth \in {1, 2, 4, 8}
ValidBitDepth(bit_depth) == bit_depth \in {1, 2, 4, 8, 16}

\* pngcore_core.c:336-341
ValidColorType(color_type) == color_type \in {0, 2, 3, 4, 6}

\* pngcore_core.c:311-344
pngcore_validate(png) ==
  IF png = NULL \/ png.internal = NULL THEN 0
  ELSE IF \/ png.internal.ihdr = NULL
          \/ png.internal.idat = NULL
          \/ png.internal.iend = NULL THEN 0
  ELSE LET ihdr == png.internal.ihdr.p_data
       IN  IF ihdr.width = 0 \/ ihdr.height = 0 THEN 0
           ELSE IF ~ValidBitDepth(ihdr.bit_depth) THEN 0
           ELSE IF ~ValidColorType(ihdr.color_type) THEN 0
           ELSE 1

\* part_001:455-458, 585, 597  htonl(x), copied out byte by byte: the most
\* significant byte of x comes first
htonl_bytesBroken(x) ==
  <<x % 256, (x \div 256) % 256, (x \div 65536) % 256, x \div 16777216>>
htonl_bytes(x) ==
  <<x \div 16777216, (x \div 65536) % 256, (x \div 256) % 256, x % 256>>

\* part_001:441-478
pngcore_ihdr_to_raw(ihdr) ==
  LET p_data == htonl_bytes(ihdr.p_data.width) \o htonl_bytes(ihdr.p_data.height)
                  \o <<ihdr.p_data.bit_depth, ihdr.p_data.color_type,
                       ihdr.p_data.compression, ihdr.p_data.filter,
                       ihdr.p_data.interlace>>
  IN  [length |-> DATA_IHDR_SIZE, type |-> IHDR, p_data |-> p_data,
       crc |-> pngcore_crc(IHDR \o Bytes(p_data, 0, DATA_IHDR_SIZE))]

\* part_001:480-506
pngcore_idat_to_raw(idat) ==
  LET p_data == Bytes(idat.p_data.data, 0, idat.p_data.length)
  IN  [length |-> idat.p_data.length, type |-> IDAT, p_data |-> p_data,
       crc |-> pngcore_crc(IDAT \o p_data)]

\* part_001:508-520.  p_data is NULL, no byte of it is ever read
pngcore_iend_to_raw(iend) ==
  [length |-> 0, type |-> IEND, p_data |-> <<>>, crc |-> pngcore_crc(IEND)]

\* part_001:522-545
pngcore_png_to_raw(png, code) ==
  IF png = NULL THEN [ret |-> NULL, code |-> ERR]
  ELSE [ret |-> [chunks |-> <<pngcore_ihdr_to_raw(png.ihdr),
                              pngcore_idat_to_raw(png.idat),
                              pngcore_iend_to_raw(png.iend)>>],
        code |-> code]

\* part_001:581-599  one turn of the loop: length, type, data if
\* chunk->length > 0 (p_data is then not NULL), crc
WriteChunk(chunk) ==
  htonl_bytes(chunk.length) \o chunk.type
    \o (IF chunk.length > 0 THEN Bytes(chunk.p_data, 0, chunk.length) ELSE <<>>)
    \o htonl_bytes(chunk.crc)

\* part_001:551-603, with a file that opens: the bytes written to it
pngcore_write_png_file(png, code) ==
  IF png = NULL THEN [file |-> <<>>, code |-> ERR]
  ELSE LET raw_png == pngcore_png_to_raw(png, code)
       IN  IF raw_png.ret = NULL \/ raw_png.code # SUCCESS
             THEN [file |-> <<>>, code |-> raw_png.code]
             ELSE [file |-> PNG_SIG \o WriteChunk(raw_png.ret.chunks[1])
                                    \o WriteChunk(raw_png.ret.chunks[2])
                                    \o WriteChunk(raw_png.ret.chunks[3]),
                   code |-> raw_png.code]

\* pngcore_core.c:152-174
pngcore_save_file(png, caller_code) ==
  IF png = NULL THEN [ret |-> -1, file |-> <<>>, code |-> "PNGCORE_ERR"]
  ELSE LET w == pngcore_write_png_file(png.internal, SUCCESS)
       IN  IF w.code # SUCCESS
             THEN [ret |-> -1, file |-> w.file, code |-> convert_error_code(w.code)]
             ELSE [ret |-> 0, file |-> w.file, code |-> caller_code]

\* zlib is outside the repository.  deflate() turns source_len bytes into
\* one zlib stream whose length depends on the bytes: at least 8 bytes (2 of
\* header, 2 of block, 4 of Adler-32) and one per 1032 bytes of input, at
\* most zlib's compressBound(source_len)
compressBound(source_len) ==
  source_len + (source_len \div 4096) + (source_len \div 16384)
             + (source_len \div 33554432) + 13
DeflatedLens(source_len) ==
  {d \in {8 + source_len \div 1032, source_len, compressBound(source_len)} :
     d >= 8 + source_len \div 1032}

\* A zlib stream of def_len bytes
DeflateStream(def_len) == [i \in 1..def_len |-> IF i = 1 THEN 120 ELSE 0]

\* part_001:15-56: each piece of the stream is copied to p_dest, whatever
\* the size of dest; Z_OK and the length of the stream
pngcore_mem_deflate(source_len, def_len) ==
  [ret |-> "Z_OK", dest_len |-> def_len, stream |-> DeflateStream(def_len)]

\* part_001:653 against part_001:44-45: dest_buf = malloc(src_len) receives
\* def_len bytes
Overrun(src_len, def_len) == def_len > src_len

\* part_001:651-683, as the code assigns: ret is the value returned, png
\* the structure dest_png points to afterwards
pngcore_deflate_idat(src_len, def_len, dest_png) ==
  LET z == pngcore_mem_deflate(src_len, def_len)
  IN  IF z.ret # "Z_OK" THEN [ret |-> -1, png |-> dest_png]
      ELSE [ret |-> z.dest_len,
            png |-> [dest_png EXCEPT !.idat.p_data =
                       [length |-> z.dest_len, data |-> z.stream]]]

\* What writing past the end of the malloc'ed dest_buf does is undefined:
\* the bytes land in the allocator's padding ("slack"), in the heap object
\* that follows, here the pngcore_ihdr_data_t whose first field is width
\* ("clobber"), or in the allocator's bookkeeping, and realloc aborts
\* ("abort")
HeapOutcomes == {"slack", "clobber", "abort"}

\* pngcore_core.c:280-288 into part_001:651-683, with the outcome heap of
\* an overrun.  A clobbered width holds the first byte of the stream that
\* did not fit.
DeflateInto(png, src_len, def_len, heap) ==
  LET d == pngcore_deflate_idat(src_len, def_len, png.internal)
  IN  IF ~Overrun(src_len, def_len) \/ heap = "slack"
        THEN [returned |-> TRUE, ret |-> d.ret, png |-> [internal |-> d.png]]
      ELSE IF heap = "clobber"
        THEN [returned |-> TRUE, ret |-> d.ret,
              png |-> [internal |->
                         [d.png EXCEPT !.ihdr.p_data.width =
                                          DeflateStream(def_len)[src_len + 1]]]]
      ELSE [returned |-> FALSE, ret |-> -1, png |-> png]

(***************************************************************************)
(* Byte buffers handed to the PNG functions.  A well-formed buffer is the  *)
(* signature and three chunks length || type || payload || crc (the layout *)
(* pngcore_load_raw_chunk reads); the others are built from these by       *)
(* changing a stored CRC, the order of the chunk types, the signature, a   *)
(* declared length, or the end of the buffer.                              *)
(***************************************************************************)
MaxCut == 2        \* bytes removed from the end of a buffer
MaxExtra == 1      \* bytes added after the third chunk

\* The four bytes from_be_buffer reads back as n
be32(n) == <<n \div 16777216, (n \div 65536) % 256, (n \div 256) % 256, n % 256>>

\* A stored CRC with its last bit changed
Corrupted(crc) == IF crc % 2 = 0 THEN crc + 1 ELSE crc - 1

EncodeChunk(type, payload, crc_ok) ==
  LET crc == pngcore_crc(type \o payload)
  IN  be32(Len(payload)) \o type \o payload
        \o be32(IF crc_ok THEN crc ELSE Corrupted(crc))

\* IHDR payload: width, height, bit depth 8, color type 6 (RGBA), 0, 0, 0
IhdrPayload(width, height) == be32(width) \o be32(height) \o <<8, 6, 0, 0, 0>>

\* zlib is outside the repository.  A complete zlib stream is represented
\* by <<120, f, q>>: it inflates to q * INF_SIZE bytes of fragment f's
\* pattern.  Any other payload is not a complete stream.
ZStream(f, q) == <<120, f, q>>

Widths == {400, 70000}
ChunkChoices == {IHDR, IDAT, IEND} \X BOOLEAN

PayloadOf(type, width) ==
  IF type = IHDR THEN IhdrPayload(width, 6)
  ELSE IF type = IDAT THEN ZStream(0, 1)
  ELSE <<>>

\* signature || chunk || chunk || chunk
ThreeChunks(c1, c2, c3, width) ==
  PNG_SIG \o EncodeChunk(c1[1], PayloadOf(c1[1], width), c1[2])
          \o EncodeChunk(c2[1], PayloadOf(c2[1], width), c2[2])
          \o EncodeChunk(c3[1], PayloadOf(c3[1], width), c3[2])

WellFormed(width) == ThreeChunks(<<IHDR, TRUE>>, <<IDAT, TRUE>>, <<IEND, TRUE>>, width)

Bases ==
  {ThreeChunks(c1, c2, c3, w) : c1 \in ChunkChoices, c2 \in ChunkChoices,
                                c3 \in ChunkChoices, w \in Widths}

Zeros(n) == [i \in 1..n |-> 0]

\* A well-formed PNG with one byte of its signature changed, and buffers of
\* seven to nine bytes with or without the signature
SigInputs ==
  {[WellFormed(w) EXCEPT ![i] = (@ + 1) % 256] : w \in Widths, i \in 1..PNG_SIG_SIZE}
  \cup {[PNG_SIG EXCEPT ![i] = (@ + 1) % 256] : i \in 1..PNG_SIG_SIZE}
  \cup {PNG_SIG, <<0>> \o PNG_SIG, PNG_SIG \o <<0>>, Zeros(PNG_SIG_SIZE),
        SubSeq(PNG_SIG, 1, PNG_SIG_SIZE - 1)}

Inputs ==
  Bases
  \cup SigInputs
  \cup {SubSeq(b, 1, Len(b) - k) : b \in Bases, k \in 1..MaxCut}
  \cup {b \o Zeros(k) : b \in Bases, k \in 1..MaxExtra}
  \cup {b \o EncodeChunk(IEND, <<>>, TRUE) : b \in Bases}
  \cup {SubSeq(WellFormed(w), 1, k) : w \in Widths, k \in {0, 7, 8, 33, 48}}
  \cup {[WellFormed(w) EXCEPT ![1] = 0] : w \in Widths}
  \cup {[WellFormed(w) EXCEPT ![9] = 127] : w \in Widths}

(***************************************************************************)
(* The bodies a server sends, by kind, for the fragment f it encodes.      *)
(*   png    signature, IHDR, IDAT, IEND; the IDAT payload inflates to      *)
(*          INF_SIZE bytes of fragment f                                   *)
(*   junk   bytes without the signature                                    *)
(*   badz   as png, the IDAT payload is not a complete zlib stream         *)
(*   types  signature and three framed chunks typed IEND, IDAT, IHDR       *)
(*   big    as png, the IDAT payload inflates to 2 * INF_SIZE bytes        *)
(*   long   MAX_IMG_STRIP_SIZE + 1 bytes without the signature             *)
(*   none   no bytes (a zero-filled slot)                                  *)
(***************************************************************************)
MakeBody(kind, f) ==
  CASE kind = "png" ->
         PNG_SIG \o EncodeChunk(IHDR, IhdrPayload(400, 6), TRUE)
                 \o EncodeChunk(IDAT, ZStream(f, 1), TRUE)
                 \o EncodeChunk(IEND, <<>>, TRUE)
    [] kind = "badz" ->
         PNG_SIG \o EncodeChunk(IHDR, IhdrPayload(400, 6), TRUE)
                 \o EncodeChunk(IDAT, <<0>>, TRUE)
                 \o EncodeChunk(IEND, <<>>, TRUE)
    [] kind = "types" ->
         PNG_SIG \o EncodeChunk(IEND, <<>>, TRUE)
                 \o EncodeChunk(IDAT, ZStream(f, 1), TRUE)
                 \o EncodeChunk(IHDR, IhdrPayload(400, 6), TRUE)
    [] kind = "big" ->
         PNG_SIG \o EncodeChunk(IHDR, IhdrPayload(400, 6), TRUE)
                 \o EncodeChunk(IDAT, ZStream(f, 2), TRUE)
                 \o EncodeChunk(IEND, <<>>, TRUE)
    [] kind = "junk" -> Zeros(PNG_SIG_SIZE)
    [] kind = "long" -> Zeros(MAX_IMG_STRIP_SIZE + 1)
    [] OTHER -> <<>>

AllKinds == {"none", "png", "junk", "badz", "types", "big", "long"}
BodyTable ==
  [kind \in AllKinds, f \in (-1)..(TOTAL_IMAGES - 1) |-> MakeBody(kind, f)]
Body(kind, f) == BodyTable[kind, f]

\* response->data->size
BodySize(response) == Len(Body(response.kind, response.seq))

\* part_002:60-61  memcpy(&entry.data, buf, size); entry.length = size:
\* the number of bytes copied into the record and its length
CopyLength(size) == size

\* The bytes of a record: the body copied into it
EntryData(e) == Body(e.kind, e.frag)

\* part_001:61-111, zlib's inflate abstracted: a complete stream is copied
\* out whole, whatever its length, and gives Z_OK
pngcore_mem_inflate(source) ==
  IF Len(source) = 3 /\ source[1] = 120
    THEN [ret |-> "Z_OK", dest_len |-> source[3] * INF_SIZE, frag |-> source[2]]
    ELSE [ret |-> "Z_DATA_ERROR", dest_len |-> 0, frag |-> -1]

(* ---- pure helpers, one per expression of the code.  A helper may be  ---- *)
(* ---- preceded by a faulty variant of the same expression (...Broken), ---- *)
(* ---- against which the properties below are tested.                   ---- *)

\* part_002:31  if (entries_produced >= TOTAL_IMAGES) break;
AllProducedBroken(produced) == produced > TOTAL_IMAGES
AllProduced(produced) == produced >= TOTAL_IMAGES

\* part_002:80  if (entries_consumed >= TOTAL_IMAGES)
AllConsumedBroken(consumed) == consumed >= TOTAL_IMAGES - 1
AllConsumed(consumed) == consumed >= TOTAL_IMAGES

(* part_002:51  if (!response || response->data->seq != entry_num) *)
FetchFailedBroken(response, k) == response = NullResponse
FetchFailed(response, k) == response = NullResponse \/ response.seq # k

(* part_000:25  cb->head = (cb->head + 1) % cb->capacity *)
HeadNextBroken(h, capacity) == h
HeadNext(h, capacity) == (h + 1) % capacity

(* part_000:45  cb->tail = (cb->tail + 1) % cb->capacity *)
TailNextBroken(t, capacity) == t
TailNext(t, capacity) == (t + 1) % capacity

\* part_002:37  (next_entry_to_produce)++
ClaimNextBroken(n) == n
ClaimNext(n) == n + 1

\* part_002:38  (entries_produced)++
ProducedNextBroken(n) == n
ProducedNextDown(n) == n - 1
ProducedNext(n) == n + 1

\* part_002:29, 79, 128 and part_000:21, 36  sem_wait(&sems[0]) returns
\* once the value of the semaphore is above zero
SemAvailableBroken(value) == value >= 0
SemAvailable(value) == value > 0

\* part_002:32, 40, 81, 85, 130 and part_000:28, 39, 48  sem_post(&sems[0])
\* at the end of a critical section
SemReleaseBroken(value) == value
SemRelease(value) == value + 1

(* part_000:38  if (cb->count <= 0) *)
RingEmptyBroken(cnt) == cnt < 0
RingEmpty(cnt) == cnt <= 0

(* part_002:215  sem_init(&proc->sems[1], SEM_PROC, proc->buffer_size) *)
EmptyInitBroken(bs) == bs + 1
EmptyInit(bs) == bs

\* part_002:55  sem_post(&proc->sems[1]) of a producer whose fetch failed
ReturnSlotBroken(e) == e
ReturnSlot(e) == e + 1

\* part_002:82  sem_post(&proc->sems[2]) of a consumer that leaves
WakePostBroken(f) == f
WakePost(f) == f + 1

(* part_002:113  int offset = entry.sequence_num * INF_SIZE; *)
RasterOffsetBroken(seq) == 0
RasterOffset(seq) == seq * INF_SIZE

(* part_002:115  if (offset + INF_SIZE < BUF_SIZE) *)
InBoundsBroken(offset) == offset + INF_SIZE < INF_SIZE * TOTAL_IMAGES
InBounds(offset) == offset + INF_SIZE < BUF_SIZE

\* part_002:103-105  the consumer's pngcore_load_raw_png(entry.data,
\* entry.length, 0, &error)
\* (the result for each body at its own size is computed once, in LoadTable)
LoadTable ==
  [kind \in AllKinds, f \in (-1)..(TOTAL_IMAGES - 1) |->
     pngcore_load_raw_png(Body(kind, f), CopyLength(Len(Body(kind, f))),
                          0, SUCCESS).ret]
LoadEntry(e) ==
  IF e.length = CopyLength(Len(EntryData(e)))
    THEN LoadTable[e.kind, e.frag]
    ELSE pngcore_load_raw_png(EntryData(e), e.length, 0, SUCCESS).ret
Parses(e) == LoadEntry(e) # NULL

\* part_002:119-120  pngcore_mem_inflate(..., png->chunks[1]->p_data, ...)
InflateEntry(e) == pngcore_mem_inflate(LoadEntry(e).chunks[2].p_data)
Inflates(e) == Parses(e) /\ InflateEntry(e).ret = "Z_OK"

\* The raster after dest_len bytes of fragment frag were copied to the
\* start of block b: block b holds the fragment, each later block the
\* bytes reach is overwritten
Written(raster, b, z) ==
  [j \in DOMAIN raster |->
     IF j = b THEN pattern(z.frag)
     ELSE IF j > b /\ j * INF_SIZE < b * INF_SIZE + z.dest_len THEN Spill
     ELSE raster[j]]

Bump(f, k) == IF k \in DOMAIN f THEN [f EXCEPT ![k] = @ + 1] ELSE f


(***************************************************************************)
(* pngcore_concurrent_create (part_002:142-231): the state the run starts  *)
(* from.  No worker exists until pngcore_concurrent_run forks it.          *)
(***************************************************************************)
Created ==
  /\ buffer_size \in 1..MaxBufferSize
  /\ num_producers \in 1..MaxProducers
  /\ num_consumers \in 1..MaxConsumers
  /\ head = 0 /\ tail = 0 /\ count = 0
  /\ data = [i \in 0..(buffer_size - 1) |-> ZeroEntry]
  /\ mutex = 1
  /\ empty = EmptyInit(buffer_size)
  /\ filled = 0
  /\ next_entry_to_produce = 0
  /\ entries_produced = 0
  /\ entries_consumed = 0
  /\ idat_buf = [k \in SeqNums |-> 0]
  /\ ppc = [p \in Producers |-> "unborn"]
  /\ entry_num = [p \in Producers |-> -1]
  /\ pentry = [p \in Producers |-> NoEntry]
  /\ cpc = [c \in Consumers |-> "unborn"]
  /\ centry = [c \in Consumers |-> NoEntry]
  /\ run = "fork"
  /\ claimLog = <<>>
  /\ dropped = {}
  /\ fetches = [k \in SeqNums |-> 0]
  /\ putLog = EmptyBag
  /\ getLog = EmptyBag
  /\ fifo = <<>>
  /\ placed = [k \in SeqNums |-> 0]
  /\ reach = [k \in SeqNums |-> 0]

\* The pipeline is handed no buffer of its own: in_buf and out stay idle
Init ==
  /\ Created
  /\ in_buf = <<>>
  /\ out = NoCall
  /\ image = NULL
  /\ http = NULL

(***************************************************************************)
(* pngcore_producer (part_002:26-74)                                       *)
(***************************************************************************)

\* line 29: sem_wait(&proc->sems[0])
producer_lock(p) ==
  /\ ppc[p] = "p_lock"
  /\ SemAvailable(mutex)
  /\ mutex' = mutex - 1
  /\ ppc' = [ppc EXCEPT ![p] = "p_claim"]
  /\ UNCHANGED <<png_io, config, cbuf, empty, filled, counters, idat_buf, entry_num,
                 pentry, clocal, run, history>>

\* lines 31-40: the claim, and the release of the mutex
producer_claim(p) ==
  /\ ppc[p] = "p_claim"
  /\ mutex' = SemRelease(mutex)
  /\ IF AllProduced(entries_produced)
       THEN /\ ppc' = [ppc EXCEPT ![p] = "exit"]
            /\ UNCHANGED <<counters, entry_num, claimLog>>
       ELSE /\ entry_num' = [entry_num EXCEPT ![p] = next_entry_to_produce]
            /\ next_entry_to_produce' = ClaimNext(next_entry_to_produce)
            /\ entries_produced' = ProducedNext(entries_produced)
            /\ claimLog' = Append(claimLog, next_entry_to_produce)
            /\ ppc' = [ppc EXCEPT ![p] = "p_wait_empty"]
            /\ UNCHANGED entries_consumed
  /\ UNCHANGED <<png_io, config, cbuf, empty, filled, idat_buf, pentry, clocal, run,
                 dropped, fetches, putLog, getLog, fifo, placed, reach>>

\* line 48: sem_wait(&proc->sems[1])
producer_wait_empty(p) ==
  /\ ppc[p] = "p_wait_empty"
  /\ empty > 0
  /\ empty' = empty - 1
  /\ ppc' = [ppc EXCEPT ![p] = "p_fetch"]
  /\ UNCHANGED <<png_io, config, cbuf, mutex, filled, counters, idat_buf, entry_num,
                 pentry, clocal, run, history>>

\* lines 50-65: the fetch returns response; a failed fetch returns the slot
\* (line 55) and continues, a good one fills the local entry
producer_fetch(p, response) ==
  /\ ppc[p] = "p_fetch"
  /\ fetches' = Bump(fetches, entry_num[p])
  /\ dropped' = IF TransportFailure(response, entry_num[p])
                 THEN dropped \cup {entry_num[p]} ELSE dropped
  /\ IF FetchFailed(response, entry_num[p])
       THEN /\ empty' = ReturnSlot(empty)
            /\ ppc' = [ppc EXCEPT ![p] = "p_lock"]
            /\ entry_num' = [entry_num EXCEPT ![p] = -1]
            /\ UNCHANGED pentry
       ELSE /\ pentry' = [pentry EXCEPT ![p] =
                            [sequence_num |-> entry_num[p],
                             length |-> CopyLength(BodySize(response)),
                             frag |-> response.seq, kind |-> response.kind]]
            /\ ppc' = [ppc EXCEPT ![p] = "p_add_lock"]
            /\ UNCHANGED <<empty, entry_num>>
  /\ UNCHANGED <<png_io, config, cbuf, mutex, filled, counters, idat_buf, clocal, run,
                 claimLog, putLog, getLog, fifo, placed, reach>>

\* pngcore_cbuf_add, part_000:21: sem_wait(&sems[0])
cbuf_add_lock(p) ==
  /\ ppc[p] = "p_add_lock"
  /\ SemAvailable(mutex)
  /\ mutex' = mutex - 1
  /\ ppc' = [ppc EXCEPT ![p] = "p_add"]
  /\ UNCHANGED <<png_io, config, cbuf, empty, filled, counters, idat_buf, entry_num,
                 pentry, clocal, run, history>>

\* pngcore_cbuf_add, part_000:24-28: the copy into data[head], and the release.
\* A head outside the ring is a write outside the data array.
cbuf_add(p) ==
  /\ ppc[p] = "p_add"
  /\ data' = IF head \in DOMAIN data THEN [data EXCEPT ![head] = pentry[p]] ELSE data
  /\ head' = HeadNext(head, buffer_size)
  /\ count' = count + 1
  /\ mutex' = SemRelease(mutex)
  /\ putLog' = putLog (+) SetToBag({pentry[p]})
  /\ fifo' = Append(fifo, pentry[p])
  /\ ppc' = [ppc EXCEPT ![p] = "p_post_filled"]
  /\ UNCHANGED <<png_io, config, tail, empty, filled, counters, idat_buf, entry_num,
                 pentry, clocal, run, claimLog, dropped, fetches, getLog, placed,
                 reach>>

\* line 70: sem_post(&proc->sems[2]); the iteration's locals go out of scope
producer_post_filled(p) ==
  /\ ppc[p] = "p_post_filled"
  /\ filled' = filled + 1
  /\ ppc' = [ppc EXCEPT ![p] = "p_lock"]
  /\ entry_num' = [entry_num EXCEPT ![p] = -1]
  /\ pentry' = [pentry EXCEPT ![p] = NoEntry]
  /\ UNCHANGED <<png_io, config, cbuf, mutex, empty, counters, idat_buf, clocal, run,
                 history>>


(***************************************************************************)
(* pngcore_consumer (part_002:76-136)                                      *)
(***************************************************************************)

\* line 79: sem_wait(&proc->sems[0])
consumer_lock(c) ==
  /\ cpc[c] = "c_lock"
  /\ SemAvailable(mutex)
  /\ mutex' = mutex - 1
  /\ cpc' = [cpc EXCEPT ![c] = "c_check"]
  /\ UNCHANGED <<png_io, config, cbuf, empty, filled, counters, idat_buf, plocal,
                 centry, run, history>>

\* lines 80-85: the done check, and the release of the mutex
consumer_check(c) ==
  /\ cpc[c] = "c_check"
  /\ mutex' = SemRelease(mutex)
  /\ cpc' = [cpc EXCEPT ![c] = IF AllConsumed(entries_consumed)
                                 THEN "c_wake" ELSE "c_wait_filled"]
  /\ UNCHANGED <<png_io, config, cbuf, empty, filled, counters, idat_buf, plocal,
                 centry, run, history>>

\* lines 82-83: sem_post(&proc->sems[2]); break
consumer_wake(c) ==
  /\ cpc[c] = "c_wake"
  /\ filled' = WakePost(filled)
  /\ cpc' = [cpc EXCEPT ![c] = "exit"]
  /\ UNCHANGED <<png_io, config, cbuf, mutex, empty, counters, idat_buf, plocal,
                 centry, run, history>>

\* line 88: sem_wait(&proc->sems[2])
consumer_wait_filled(c) ==
  /\ cpc[c] = "c_wait_filled"
  /\ filled > 0
  /\ filled' = filled - 1
  /\ cpc' = [cpc EXCEPT ![c] = "c_get_lock"]
  /\ UNCHANGED <<png_io, config, cbuf, mutex, empty, counters, idat_buf, plocal,
                 centry, run, history>>

\* pngcore_cbuf_get, part_000:36: sem_wait(&sems[0])
cbuf_get_lock(c) ==
  /\ cpc[c] = "c_get_lock"
  /\ SemAvailable(mutex)
  /\ mutex' = mutex - 1
  /\ cpc' = [cpc EXCEPT ![c] = "c_get"]
  /\ UNCHANGED <<png_io, config, cbuf, empty, filled, counters, idat_buf, plocal,
                 centry, run, history>>

\* pngcore_cbuf_get, part_000:38-50: -1 on an empty ring (the consumer then
\* continues, part_002:91-93), else the copy out of data[tail]; the release
cbuf_get(c) ==
  /\ cpc[c] = "c_get"
  /\ mutex' = SemRelease(mutex)
  /\ IF RingEmpty(count)
       THEN /\ cpc' = [cpc EXCEPT ![c] = "c_lock"]
            /\ UNCHANGED <<cbuf, centry, getLog, fifo>>
       ELSE /\ centry' = [centry EXCEPT ![c] =
                            IF tail \in DOMAIN data THEN data[tail] ELSE NoEntry]
            /\ tail' = TailNext(tail, buffer_size)
            /\ count' = count - 1
            /\ getLog' = getLog (+) SetToBag({centry'[c]})
            /\ fifo' = IF fifo = <<>> THEN fifo ELSE Tail(fifo)
            /\ cpc' = [cpc EXCEPT ![c] = "c_post_empty"]
            /\ UNCHANGED <<head, data>>
  /\ UNCHANGED <<png_io, config, empty, filled, counters, idat_buf, plocal, run,
                 claimLog, dropped, fetches, putLog, placed, reach>>

\* line 95: sem_post(&proc->sems[1])
consumer_post_empty(c) ==
  /\ cpc[c] = "c_post_empty"
  /\ empty' = empty + 1
  /\ cpc' = [cpc EXCEPT ![c] = "c_process"]
  /\ UNCHANGED <<png_io, config, cbuf, mutex, filled, counters, idat_buf, plocal,
                 centry, run, history>>

\* part_002:105-110  if (!png) { ...; continue; }: a body that does not
\* parse sends the consumer back to the top of its loop
AfterParseBroken(parsed) == "c_mark_lock"
AfterParse(parsed) == IF parsed THEN "c_mark_lock" ELSE "c_lock"

\* The raster block an offset starts
Block(offset) == offset \div INF_SIZE

\* lines 98-125: sleep, parse, and inflate the IDAT payload into
\* idat_buf + offset.  A body that does not parse ends the iteration
\* (line 109); a failed inflate is only logged (lines 121-124) and may have
\* left a prefix of the block written.
consumer_process(c) ==
  /\ cpc[c] = "c_process"
  /\ IF ~Parses(centry[c])
       THEN /\ cpc' = [cpc EXCEPT ![c] = AfterParse(FALSE)]
            /\ centry' = [centry EXCEPT ![c] = NoEntry]
            /\ UNCHANGED <<idat_buf, placed, reach>>
       ELSE LET offset == RasterOffset(centry[c].sequence_num)
                b == Block(offset)
                z == InflateEntry(centry[c])
            IN  /\ cpc' = [cpc EXCEPT ![c] = AfterParse(TRUE)]
                /\ UNCHANGED centry
                /\ IF InBounds(offset) /\ b \in DOMAIN idat_buf
                     THEN IF Inflates(centry[c])
                            THEN /\ idat_buf' = Written(idat_buf, b, z)
                                 /\ placed' = Bump(placed, b)
                                 /\ reach' = [reach EXCEPT ![b] = offset + z.dest_len]
                            ELSE /\ \E prefix \in BOOLEAN :
                                      IF prefix
                                        THEN /\ idat_buf' = [idat_buf EXCEPT ![b] = Partial]
                                             /\ reach' = [reach EXCEPT ![b] = offset + 1]
                                        ELSE UNCHANGED <<idat_buf, reach>>
                                 /\ UNCHANGED placed
                     ELSE UNCHANGED <<idat_buf, placed, reach>>
  /\ UNCHANGED <<png_io, config, cbuf, sems, counters, plocal, run,
                 claimLog, dropped, fetches, putLog, getLog, fifo>>

\* line 128: sem_wait(&proc->sems[0])
consumer_mark_lock(c) ==
  /\ cpc[c] = "c_mark_lock"
  /\ SemAvailable(mutex)
  /\ mutex' = mutex - 1
  /\ cpc' = [cpc EXCEPT ![c] = "c_mark"]
  /\ UNCHANGED <<png_io, config, cbuf, empty, filled, counters, idat_buf, plocal,
                 centry, run, history>>

\* lines 129-132: entries_consumed++, the release; the iteration ends
consumer_mark(c) ==
  /\ cpc[c] = "c_mark"
  /\ entries_consumed' = entries_consumed + 1
  /\ mutex' = SemRelease(mutex)
  /\ cpc' = [cpc EXCEPT ![c] = "c_lock"]
  /\ centry' = [centry EXCEPT ![c] = NoEntry]
  /\ UNCHANGED <<png_io, config, cbuf, empty, filled, next_entry_to_produce,
                 entries_produced, idat_buf, plocal, run, history>>

(***************************************************************************)
(* pngcore_concurrent_run (part_002:246-308)                               *)
(***************************************************************************)

\* lines 261-288: the two fork() loops; each child starts its worker function
run_fork ==
  /\ run = "fork"
  /\ ppc' = [p \in Producers |-> IF p <= num_producers THEN "p_lock" ELSE ppc[p]]
  /\ cpc' = [c \in Consumers |-> IF c <= num_consumers THEN "c_lock" ELSE cpc[c]]
  /\ run' = "wait_producers"
  /\ UNCHANGED <<png_io, config, cbuf, sems, counters, idat_buf, entry_num, pentry,
                 centry, history>>

\* lines 291-293: the waitpid loop over producer_pids ends once all have exited
run_wait_producers ==
  /\ run = "wait_producers"
  /\ \A p \in Producers : p <= num_producers => ppc[p] = "exit"
  /\ run' = "wait_consumers"
  /\ UNCHANGED <<png_io, config, cbuf, sems, counters, idat_buf, plocal, clocal,
                 history>>

\* lines 296-307: the waitpid loop over consumer_pids ends once all have
\* exited; then return 0
run_wait_consumers ==
  /\ run = "wait_consumers"
  /\ \A c \in Consumers : c <= num_consumers => cpc[c] = "exit"
  /\ run' = "returned"
  /\ UNCHANGED <<png_io, config, cbuf, sems, counters, idat_buf, plocal, clocal,
                 history>>

Producer(p) ==
  \/ producer_lock(p)
  \/ producer_claim(p)
  \/ producer_wait_empty(p)
  \/ \E response \in Responses : producer_fetch(p, response)
  \/ cbuf_add_lock(p)
  \/ cbuf_add(p)
  \/ producer_post_filled(p)

\* A producer whose every fetch is answered by the mock fetcher
MockProducer(p) ==
  \/ producer_lock(p)
  \/ producer_claim(p)
  \/ producer_wait_empty(p)
  \/ producer_fetch(p, MockResponse(entry_num[p]))
  \/ cbuf_add_lock(p)
  \/ cbuf_add(p)
  \/ producer_post_filled(p)

\* A server that answers every fetch with the claimed number and a body
\* that is not the fragment PNG it should be
WildKinds == {"badz", "types", "big", "long"}
WildProducer(p) ==
  \/ producer_lock(p)
  \/ producer_claim(p)
  \/ producer_wait_empty(p)
  \/ \E kind \in WildKinds :
        producer_fetch(p, [seq |-> entry_num[p], kind |-> kind])
  \/ cbuf_add_lock(p)
  \/ cbuf_add(p)
  \/ producer_post_filled(p)

Consumer(c) ==
  \/ consumer_lock(c)
  \/ consumer_check(c)
  \/ consumer_wake(c)
  \/ consumer_wait_filled(c)
  \/ cbuf_get_lock(c)
  \/ cbuf_get(c)
  \/ consumer_post_empty(c)
  \/ consumer_process(c)
  \/ consumer_mark_lock(c)
  \/ consumer_mark(c)

Orchestrator ==
  \/ run_fork
  \/ run_wait_producers
  \/ run_wait_consumers

Next ==
  \/ Orchestrator
  \/ \E p \in Producers : Producer(p)
  \/ \E c \in Consumers : Consumer(c)

MockNext ==
  \/ Orchestrator
  \/ \E p \in Producers : MockProducer(p)
  \/ \E c \in Consumers : Consumer(c)

WildNext ==
  \/ Orchestrator
  \/ \E p \in Producers : WildProducer(p)
  \/ \E c \in Consumers : Consumer(c)

\* Every process that can take a step eventually takes one
Fairness ==
  /\ WF_vars(Orchestrator)
  /\ \A p \in Producers : WF_vars(Producer(p))
  /\ \A c \in Consumers : WF_vars(Consumer(c))

MockFairness ==
  /\ WF_vars(Orchestrator)
  /\ \A p \in Producers : WF_vars(MockProducer(p))
  /\ \A c \in Consumers : WF_vars(Consumer(c))

pipeline == <<config, cbuf, sems, counters, idat_buf, plocal, clocal, run, history>>

\* A buffer is chosen; the pipeline is created and never run
ParseInit ==
  /\ Created
  /\ buffer_size = 1 /\ num_producers = 1 /\ num_consumers = 1
  /\ in_buf \in Inputs
  /\ out = NoCall
  /\ image = NULL
  /\ http = NULL

\* The offsets of buf at which the declared length, and the stored CRC
\* where the buffer holds one, are below 2^31, the largest integer the
\* model computes with
Offsets(buf) ==
  {o \in 0..Len(buf) :
     o + 8 <= Len(buf) =>
       /\ buf[o + 1] < 128
       /\ o + 12 + from_be_buffer(buf, o) <= Len(buf) =>
            buf[o + 9 + from_be_buffer(buf, o)] < 128}

\* pngcore_is_png_buf(in_buf, len, offset); at offset 0 it is the public
\* pngcore_is_png_buffer (pngcore_core.c:307-309)
call_is_png_buf(offset) ==
  /\ out = NoCall
  /\ out' = [call |-> "pngcore_is_png_buf", offset |-> offset,
             r |-> pngcore_is_png_buf(in_buf, Len(in_buf), offset)]
  /\ UNCHANGED <<pipeline, in_buf, image, http>>

\* pngcore_load_raw_chunk(in_buf, len, offset, &error), error = {SUCCESS, ""}
call_load_raw_chunk(offset) ==
  /\ out = NoCall
  /\ out' = [call |-> "pngcore_load_raw_chunk", offset |-> offset,
             r |-> pngcore_load_raw_chunk(in_buf, Len(in_buf), offset, SUCCESS)]
  /\ UNCHANGED <<pipeline, in_buf, image, http>>

\* pngcore_load_raw_png(in_buf, len, 0, &error), as the consumer calls it
\* (part_002:103-105)
call_load_raw_png ==
  /\ out = NoCall
  /\ out' = [call |-> "pngcore_load_raw_png",
             r |-> pngcore_load_raw_png(in_buf, Len(in_buf), 0, SUCCESS)]
  /\ UNCHANGED <<pipeline, in_buf, image, http>>

\* pngcore_load_raw_png and then pngcore_parse_raw on its result, with one
\* Error as pngcore_load_buffer passes it (pngcore_core.c:113-126)
call_parse_raw ==
  /\ out = NoCall
  /\ LET raw == pngcore_load_raw_png(in_buf, Len(in_buf), 0, SUCCESS)
     IN  out' = [call |-> "pngcore_parse_raw",
                 r |-> IF raw.ret = NULL THEN raw
                       ELSE pngcore_parse_raw(raw.ret, raw.code)]
  /\ UNCHANGED <<pipeline, in_buf, image, http>>

\* pngcore_load_buffer(in_buf, len, &error) after pngcore_error_clear(&error)
\* (part_004:20-26)
call_load_buffer ==
  /\ out = NoCall
  /\ out' = [call |-> "pngcore_load_buffer",
             r |-> pngcore_load_buffer(in_buf, Len(in_buf), "PNGCORE_SUCCESS")]
  /\ UNCHANGED <<pipeline, in_buf, image, http>>

ParseNext ==
  \/ \E offset \in {0, 1} : call_is_png_buf(offset)
  \/ \E offset \in Offsets(in_buf) : call_load_raw_chunk(offset)
  \/ call_load_raw_png
  \/ call_parse_raw
  \/ call_load_buffer

(***************************************************************************)
(* The structures handed to the functions that take a pngcore_png_t:       *)
(* complete ones with any IHDR fields, the results pngcore_parse_raw       *)
(* leaves after a CRC mismatch (iend, or idat and iend, NULL), and NULL.   *)
(***************************************************************************)
IhdrFields ==
  [width : {0, 2, 400, 16909060}, height : {0, 2, 6 * TOTAL_IMAGES},
   bit_depth : {0, 1, 2, 3, 4, 8, 16}, color_type : 0..7,
   compression : {0, 1}, filter : {0, 2}, interlace : {0, 1}]

\* A structure with the three chunks; crc is what its crc fields hold
Complete(fields, payload, crc) ==
  [internal |->
     [ihdr |-> [p_data |-> fields, crc |-> crc],
      idat |-> [p_data |-> [length |-> Len(payload), data |-> payload],
                crc |-> crc],
      iend |-> [crc |-> crc]]]

Images ==
  {Complete(f, d, 0) : f \in IhdrFields, d \in {ZStream(0, 1), <<1, 2, 3, 4, 5>>}}
  \cup {[Complete(f, ZStream(0, 1), 0) EXCEPT !.internal.iend = NULL] :
          f \in IhdrFields}
  \cup {[Complete(f, ZStream(0, 1), 0) EXCEPT !.internal.idat = NULL,
                                               !.internal.iend = NULL] :
          f \in IhdrFields}
  \cup {NULL}

\* png points to a structure that holds the three chunks
IsComplete(png) ==
  /\ png # NULL
  /\ png.internal.ihdr # NULL
  /\ png.internal.idat # NULL
  /\ png.internal.iend # NULL

\* A structure is chosen; the pipeline is created and never run
PngInit ==
  /\ Created
  /\ buffer_size = 1 /\ num_producers = 1 /\ num_consumers = 1
  /\ in_buf = <<>>
  /\ out = NoCall
  /\ image \in Images
  /\ http = NULL

\* pngcore_validate(image)
call_validate ==
  /\ out = NoCall
  /\ out' = [call |-> "pngcore_validate", r |-> pngcore_validate(image)]
  /\ UNCHANGED <<pipeline, in_buf, image, http>>

\* pngcore_save_file(image, filename, &error) after pngcore_error_clear:
\* in_buf becomes the bytes of the file.  (With a chunk missing,
\* pngcore_png_to_raw is handed a NULL chunk: no such call is made.)
call_save_file ==
  /\ out = NoCall
  /\ image = NULL \/ IsComplete(image)
  /\ LET w == pngcore_save_file(image, "PNGCORE_SUCCESS")
     IN  /\ in_buf' = w.file
         /\ out' = [call |-> "pngcore_save_file",
                    r |-> [ret |-> w.ret, code |-> w.code]]
  /\ UNCHANGED <<pipeline, image, http>>

\* The file just written, read whole and handed to pngcore_load_raw_png
\* and pngcore_parse_raw
read_back_parse_raw ==
  /\ out.call = "pngcore_save_file" /\ out.r.ret = 0
  /\ LET raw == pngcore_load_raw_png(in_buf, Len(in_buf), 0, SUCCESS)
     IN  out' = [call |-> "pngcore_parse_raw",
                 r |-> IF raw.ret = NULL THEN raw
                       ELSE pngcore_parse_raw(raw.ret, raw.code)]
  /\ UNCHANGED <<pipeline, in_buf, image, http>>

\* pngcore_load_file on the file just written (pngcore_core.c:44-100)
read_back_load_file ==
  /\ out.call = "pngcore_save_file" /\ out.r.ret = 0
  /\ out' = [call |-> "pngcore_load_file",
             r |-> pngcore_load_buffer(in_buf, Len(in_buf), "PNGCORE_SUCCESS")]
  /\ UNCHANGED <<pipeline, in_buf, image, http>>

\* pngcore_set_raw_data(image, data, size) (pngcore_core.c:280-288): data
\* deflates to def_len bytes
call_set_raw_data(size, def_len, heap) ==
  /\ out = NoCall
  /\ IsComplete(image)
  /\ Overrun(size, def_len) \/ heap = "slack"
  /\ LET d == DeflateInto(image, size, def_len, heap)
     IN  /\ image' = d.png
         /\ out' = [call |-> "pngcore_set_raw_data", arg |-> image,
                    def_len |-> def_len, returned |-> d.returned,
                    r |-> IF d.ret >= 0 THEN 0 ELSE -1]
  /\ UNCHANGED <<pipeline, in_buf, http>>

\* pngcore_concurrent_get_result (part_002:310-327): the raster, which
\* holds what the run left in it, deflates to def_len bytes
call_get_result(def_len, heap, garbage) ==
  /\ out = NoCall
  /\ image = NULL
  /\ Overrun(INF_SIZE * TOTAL_IMAGES, def_len) \/ heap = "slack"
  /\ LET result == pngcore_create(400, 6 * TOTAL_IMAGES, 8, PNGCORE_COLOR_RGBA,
                                  garbage)
         d == DeflateInto(result, INF_SIZE * TOTAL_IMAGES, def_len, heap)
     IN  /\ image' = IF d.ret = -1 THEN NULL ELSE d.png
         /\ out' = [call |-> "pngcore_concurrent_get_result",
                    def_len |-> def_len, returned |-> d.returned]
  /\ UNCHANGED <<pipeline, in_buf, http>>

PngNext ==
  \/ call_validate
  \/ call_save_file
  \/ read_back_parse_raw
  \/ read_back_load_file
  \/ \E size \in {1, 20, 64} : \E def_len \in DeflatedLens(size) :
        \E heap \in HeapOutcomes : call_set_raw_data(size, def_len, heap)
  \/ \E def_len \in DeflatedLens(INF_SIZE * TOTAL_IMAGES) :
        \E heap \in HeapOutcomes : \E garbage \in {0, 43981} :
           call_get_result(def_len, heap, garbage)


(***************************************************************************)
(* pngcore_network.c: the response of pngcore_http_get while libcurl hands *)
(* its header lines to pngcore_header_cb.  A line is a sequence of         *)
(* character codes; p_recv is not NUL-terminated, so what atoi reads after *)
(* the last byte of a line is whatever lies beyond it in memory.           *)
(***************************************************************************)
MaxLines == 2      \* header lines of one response

BUF_INC == 524288

\* pngcore_types.h:32  "X-Ece252-Fragment: "
FRAGMENT_HEADER == <<88, 45, 69, 99, 101, 50, 53, 50, 45, 70, 114, 97, 103, 109, 101, 110, 116, 58, 32>>

\* pngcore_network.c:17-34  pngcore_recv_buf_init(ptr, max_size)
pngcore_recv_buf_init(max_size) ==
  [buf |-> <<>>, size |-> 0, max_size |-> max_size, seq |-> -1]

\* atoi(): white space (isspace() in the C locale), an optional sign, then
\* digits up to the first byte that is not one; 0 when there is no digit
atoi(s) ==
  LET IsSpace(ch) == ch \in {9, 10, 11, 12, 13, 32}
      IsDigit(ch) == ch \in 48..57
      RECURSIVE SkipSpace(_)
      SkipSpace(q) == IF q # <<>> /\ IsSpace(Head(q)) THEN SkipSpace(Tail(q)) ELSE q
      RECURSIVE AtoiDigits(_, _)
      AtoiDigits(q, acc) ==
        IF q # <<>> /\ IsDigit(Head(q))
          THEN AtoiDigits(Tail(q), acc * 10 + (Head(q) - 48))
          ELSE acc
      t == SkipSpace(s)
  IN  IF t = <<>> THEN 0
      ELSE IF Head(t) = 45 THEN 0 - AtoiDigits(Tail(t), 0)
      ELSE IF Head(t) = 43 THEN AtoiDigits(Tail(t), 0)
      ELSE AtoiDigits(t, 0)

\* pngcore_network.c:79-80  realsize > strlen(FRAGMENT_HEADER) &&
\* strncmp(p_recv, FRAGMENT_HEADER, strlen(FRAGMENT_HEADER)) == 0
HeaderMatchesBroken(p_recv) == Len(p_recv) > Len(FRAGMENT_HEADER)
HeaderMatches(p_recv) ==
  /\ Len(p_recv) > Len(FRAGMENT_HEADER)
  /\ SubSeq(p_recv, 1, Len(FRAGMENT_HEADER)) = FRAGMENT_HEADER

\* pngcore_network.c:56-86  pngcore_header_cb(p_recv, 1, realsize, response),
\* with the bytes beyond that follow p_recv in memory (nothing, or a
\* digit), a NUL after them
pngcore_header_cb(p_recv, beyond, response) ==
  LET realsize == Len(p_recv)
      header_buf == response.header
      grown == IF header_buf.size + realsize + 1 > header_buf.max_size
                 THEN [header_buf EXCEPT !.max_size =
                         @ + (IF BUF_INC > realsize + 1 THEN BUF_INC ELSE realsize + 1)]
                 ELSE header_buf
      stored == [grown EXCEPT !.buf = @ \o p_recv, !.size = @ + realsize]
      after == SubSeq(p_recv, Len(FRAGMENT_HEADER) + 1, realsize) \o beyond \o <<0>>
  IN  [response EXCEPT
         !.header = stored,
         !.data.seq = IF HeaderMatches(p_recv) THEN atoi(after) ELSE @,
         !.received = Append(@, p_recv)]

\* The header line the server sends for fragment n: the prefix, the
\* decimal digits of n, CR LF
FragmentLine(n) ==
  LET RECURSIVE Decimal(_)
      Decimal(m) == IF m < 10 THEN <<48 + m>>
                    ELSE Decimal(m \div 10) \o <<48 + (m % 10)>>
  IN  FRAGMENT_HEADER \o Decimal(n) \o <<13, 10>>

\* Header lines libcurl hands over: the status line, other headers long and
\* short, the blank line, the fragment header as the server sends it, and
\* lines that are close to it
HeaderLines ==
  {<<72, 84, 84, 80, 47, 49, 46, 49, 32, 50, 48, 48, 32, 79, 75, 13, 10>>,
   <<67, 111, 110, 116, 101, 110, 116, 45, 84, 121, 112, 101, 58, 32, 105, 109, 97, 103, 101, 47, 112, 110, 103, 13, 10>>,
   <<68, 97, 116, 101, 58, 32, 49, 13, 10>>,
   <<13, 10>>,
   <<120, 45, 101, 99, 101, 50, 53, 50, 45, 102, 114, 97, 103, 109, 101, 110, 116, 58, 32, 50, 13, 10>>,
   <<88, 45, 69, 99, 101, 50, 53, 50, 45, 70, 114, 97, 103, 109, 101, 110, 116, 58, 50, 13, 10>>,
   FRAGMENT_HEADER,
   FRAGMENT_HEADER \o <<13, 10>>,
   FRAGMENT_HEADER \o <<45, 49, 13, 10>>}
  \cup {FragmentLine(n) : n \in {0, TOTAL_IMAGES - 1, SOURCE_TOTAL_IMAGES - 1, 107}}

\* The response as pngcore_http_get sets it up (pngcore_network.c:131-170);
\* received is the history of the lines handed to the header callback
HeaderInit ==
  /\ Created
  /\ buffer_size = 1 /\ num_producers = 1 /\ num_consumers = 1
  /\ in_buf = <<>>
  /\ out = NoCall
  /\ image = NULL
  /\ http = [data |-> pngcore_recv_buf_init(BUF_SIZE),
             header |-> pngcore_recv_buf_init(BUF_SIZE),
             received |-> <<>>]

\* libcurl hands one header line to the callback
header_cb(p_recv, beyond) ==
  /\ out = NoCall
  /\ Len(http.received) < MaxLines
  /\ http' = pngcore_header_cb(p_recv, beyond, http)
  /\ in_buf' = p_recv
  /\ UNCHANGED <<pipeline, out, image>>

\* pngcore_http_get returns (NULL unless ok, pngcore_network.c:204-215) to
\* a producer that claimed k, and the producer tests the response
\* (part_002:50-57)
fetch_returns(k, ok) ==
  /\ out = NoCall
  /\ LET response == IF ok THEN [seq |-> http.data.seq, kind |-> "png"]
                     ELSE NullResponse
     IN  out' = [call |-> "pngcore_http_get", ok |-> ok,
                 entry_num |-> k,
                 enqueued |-> ~FetchFailed(response, k)]
  /\ UNCHANGED <<pipeline, in_buf, image, http>>

HeaderNext ==
  \/ \E p_recv \in HeaderLines :
        \E beyond \in {<<>>, <<55>>} : header_cb(p_recv, beyond)
  \/ \E k \in SeqNums : \E ok \in BOOLEAN : fetch_returns(k, ok)


(***************************************************************************)
(* pngcore_load_raw_chunk and pngcore_parse_ihdr on the first chunk of a   *)
(* buffer, for payloads of 0 to DATA_IHDR_SIZE + MaxExtra bytes            *)
(***************************************************************************)
IhdrInputs ==
  {PNG_SIG \o EncodeChunk(type, SubSeq(IhdrPayload(w, 6) \o Zeros(MaxExtra), 1, n), crc_ok)
           \o EncodeChunk(IDAT, ZStream(0, 1), TRUE)
           \o EncodeChunk(IEND, <<>>, TRUE) :
     type \in {IHDR, IDAT}, w \in Widths,
     n \in 0..(DATA_IHDR_SIZE + MaxExtra), crc_ok \in BOOLEAN}

IhdrInit ==
  /\ Created
  /\ buffer_size = 1 /\ num_producers = 1 /\ num_consumers = 1
  /\ in_buf \in IhdrInputs
  /\ out = NoCall
  /\ image = NULL
  /\ http = NULL

\* part_001:216  pngcore_parse_ihdr(raw_png->chunks[0], error), with the
\* bytes that lie beyond the payload in the heap
call_parse_ihdr(beyond) ==
  /\ out.call = "pngcore_load_raw_chunk"
  /\ out.r.ret # NULL
  /\ LET r == parse_ihdr_reading(out.r.ret, out.r.code, beyond)
     IN  out' = [call |-> "pngcore_parse_ihdr", chunk |-> out.r.ret,
                 returned |-> r.code # SIGSEGV, r |-> r]
  /\ UNCHANGED <<pipeline, in_buf, image, http>>

\* The first chunk is loaded from the offset after the signature
\* (pngcore_raw.c:56-58), then parsed
IhdrNext ==
  \/ call_load_raw_chunk(PNG_SIG_SIZE)
  \/ \E beyond \in {<<>>, Zeros(DATA_IHDR_SIZE), [i \in 1..DATA_IHDR_SIZE |-> 127]} :
        call_parse_ihdr(beyond)

\* Any server
Spec == Init /\ [][Next]_vars

\* Any server, fair scheduling of the processes
FairSpec == Init /\ [][Next]_vars /\ Fairness

\* The mock fetcher (every fetch succeeds, every body is a good PNG), fair scheduling
MockSpec == Init /\ [][MockNext]_vars /\ MockFairness

\* A server that sends the claimed number with a body of a kind in WildKinds
WildSpec == Init /\ [][WildNext]_vars

\* One PNG function applied to one buffer
ParseSpec == ParseInit /\ [][ParseNext]_vars

\* The functions that take a structure, applied to one structure
PngSpec == PngInit /\ [][PngNext]_vars

\* One response: its header lines, then the producer's test of it
HeaderSpec == HeaderInit /\ [][HeaderNext]_vars

\* The first chunk of one buffer, loaded and parsed as IHDR
IhdrSpec == IhdrInit /\ [][IhdrNext]_vars


(***************************************************************************)
(* Derived notions used by the properties                                  *)
(***************************************************************************)
Forked(p) == p <= num_producers
ForkedC(c) == c <= num_consumers
Returned == run = "returned"
AllProducersExited == \A p \in Producers : Forked(p) => ppc[p] = "exit"
AllConsumersExited == \A c \in Consumers : ForkedC(c) => cpc[c] = "exit"

\* The workers inside a critical section of sems[0]
Holders ==
  {<<"producer", p>> : p \in {q \in Producers : ppc[q] \in {"p_claim", "p_add"}}}
  \cup {<<"consumer", c>> : c \in {d \in Consumers : cpc[d] \in {"c_check", "c_get", "c_mark"}}}

\* How many records with sequence number k a bag of records holds
CountOf(bag, k) ==
  LET hits == {e \in BagToSet(bag) : e.sequence_num = k}
      RECURSIVE Sum(_)
      Sum(S) == IF S = {} THEN 0
                ELSE LET e == CHOOSE x \in S : TRUE
                     IN  CopiesIn(e, bag) + Sum(S \ {e})
  IN  Sum(hits)

\* The records in the ring, oldest first: data[tail], ..., count of them
RingSeq ==
  [i \in 1..(IF count > 0 THEN count ELSE 0) |->
      data[(tail + i - 1) % buffer_size]]

RECURSIVE BagOfSeq(_)
BagOfSeq(q) == IF q = <<>> THEN EmptyBag
               ELSE SetToBag({Head(q)}) (+) BagOfSeq(Tail(q))

(***************************************************************************)
(* C1  With the mock fetcher (every fetch returns the claimed number and a *)
(* body that parses), for every configuration 1..MaxBufferSize x           *)
(* 1..MaxProducers x 1..MaxConsumers and under fair scheduling, the run    *)
(* returns; it returns only after every producer and consumer has exited,  *)
(* and then entries_consumed = TOTAL_IMAGES.                               *)
(***************************************************************************)
C1_HappyPathTerminates ==
  /\ <>Returned
  /\ [](Returned => /\ AllProducersExited
                    /\ AllConsumersExited
                    /\ entries_consumed = TOTAL_IMAGES)

\* The run has returned in the smallest configuration, B = P = C = 1
C1_Witness ==
  /\ Returned
  /\ buffer_size = 1 /\ num_producers = 1 /\ num_consumers = 1
  /\ entries_consumed = TOTAL_IMAGES

(***************************************************************************)
(* C2  Every run of the pipeline eventually terminates, also when a fetch  *)
(* fails or returns another sequence number than the claimed one.          *)
(***************************************************************************)
C2_AlwaysTerminates == <>Returned

(***************************************************************************)
(* C3  With the mock fetcher, whatever the interleaving and the order of   *)
(* the fragments in the queue, when the run returns raster block k holds   *)
(* pattern(k) for every k in 0..TOTAL_IMAGES-1.                            *)
(***************************************************************************)
C3_RasterIsConcatOfPatterns ==
  Returned => idat_buf = [k \in SeqNums |-> pattern(k)]

\* The run has returned with two producers, two consumers and a ring of two
C3_Witness ==
  /\ Returned
  /\ num_producers = 2 /\ num_consumers = 2 /\ buffer_size = 2
  /\ \A k \in SeqNums : idat_buf[k] = pattern(k) /\ placed[k] = 1


(***************************************************************************)
(* C4  Over any run, no sequence number is enqueued more than once, none   *)
(* is received from the queue more than once (so never by two consumers),  *)
(* and each is inflated into the raster at most once.                      *)
(***************************************************************************)
C4_EachSequenceAtMostOnce ==
  \A k \in SeqNums :
    /\ CountOf(putLog, k) <= 1
    /\ CountOf(getLog, k) <= 1
    /\ placed[k] <= 1
    /\ Cardinality({c \in Consumers : centry[c].sequence_num = k}) <= 1

\* Two consumers hold records at once, of different sequence numbers, and
\* a third number has already been placed
C4_Witness ==
  /\ centry[1].sequence_num \in SeqNums
  /\ centry[2].sequence_num \in SeqNums
  /\ centry[1].sequence_num # centry[2].sequence_num
  /\ \E k \in SeqNums : placed[k] = 1 /\ CountOf(putLog, k) = 1 /\ CountOf(getLog, k) = 1

(***************************************************************************)
(* C5  Every record put is returned by exactly one successful get: the     *)
(* records put are the records got plus the records in the ring (none      *)
(* lost, duplicated or overwritten), so after K puts and K gets the bag of *)
(* records returned equals the bag of records enqueued.                    *)
(***************************************************************************)
C5_PutsAreGetsPlusRing ==
  /\ putLog = getLog (+) BagOfSeq(RingSeq)
  /\ BagCardinality(putLog) = BagCardinality(getLog) => putLog = getLog

\* TOTAL_IMAGES puts and as many gets, by two producers and two consumers
\* through a ring of two, some of the records with bodies that do not parse
C5_Witness ==
  /\ BagCardinality(putLog) = TOTAL_IMAGES
  /\ BagCardinality(getLog) = TOTAL_IMAGES
  /\ num_producers = 2 /\ num_consumers = 2 /\ buffer_size = 2
  /\ \E e \in BagToSet(getLog) : e.kind = "junk"

(***************************************************************************)
(* C6  Always 0 <= count <= buffer_size.  pngcore_cbuf_add writes only     *)
(* when count < buffer_size and adds exactly 1; a successful               *)
(* pngcore_cbuf_get reads only when count > 0 and subtracts exactly 1; a   *)
(* failed get and every other step leave count alone.                      *)
(***************************************************************************)
C6_CountBounded ==
  /\ [](0 <= count /\ count <= buffer_size)
  /\ [][/\ \A p \in Producers :
             (ppc[p] = "p_add" /\ ppc'[p] # "p_add")
                => (count < buffer_size /\ count' = count + 1)
        /\ \A c \in Consumers :
             (cpc[c] = "c_get" /\ cpc'[c] = "c_post_empty")
                => (count > 0 /\ count' = count - 1)
        /\ \A c \in Consumers :
             (cpc[c] = "c_get" /\ cpc'[c] = "c_lock")
                => (count = 0 /\ count' = count)
        /\ count' # count =>
             \/ \E p \in Producers : ppc[p] = "p_add" /\ ppc'[p] # "p_add"
             \/ \E c \in Consumers : cpc[c] = "c_get" /\ cpc'[c] # "c_get"
       ]_vars

\* The ring of two is full and a producer that has claimed a number waits
\* for a free slot
C6_Witness ==
  /\ buffer_size = 2 /\ count = 2 /\ empty = 0
  /\ \E p \in Producers : ppc[p] = "p_wait_empty"

(***************************************************************************)
(* C7  Always entries_consumed <= entries_produced <=                      *)
(* next_entry_to_produce <= TOTAL_IMAGES.                                  *)
(***************************************************************************)
C7_CounterOrder ==
  /\ entries_consumed <= entries_produced
  /\ entries_produced <= next_entry_to_produce
  /\ next_entry_to_produce <= TOTAL_IMAGES

\* All three counters have reached TOTAL_IMAGES
C7_Witness ==
  /\ entries_consumed = TOTAL_IMAGES
  /\ entries_produced = TOTAL_IMAGES
  /\ next_entry_to_produce = TOTAL_IMAGES

(***************************************************************************)
(* C8  The claim is atomic: it runs with the mutex held by the claiming    *)
(* producer alone; while entries_produced < TOTAL_IMAGES it hands out      *)
(* k = next_entry_to_produce and increments next_entry_to_produce and      *)
(* entries_produced, otherwise it hands out nothing and the producer       *)
(* leaves.  So the numbers claimed are 0, 1, 2, ... in this order, each    *)
(* once, at most TOTAL_IMAGES of them, and no two producers hold the same  *)
(* number.                                                                 *)
(***************************************************************************)
C8_ClaimAtomic ==
  /\ [](/\ Cardinality(Holders) <= 1
        /\ (Holders # {} <=> mutex = 0)
        /\ Len(claimLog) <= TOTAL_IMAGES
        /\ \A i \in 1..Len(claimLog) : claimLog[i] = i - 1
        /\ \A p, q \in Producers :
             (p # q /\ entry_num[p] >= 0) => entry_num[p] # entry_num[q])
  /\ [][\A p \in Producers :
          (ppc[p] = "p_claim" /\ ppc'[p] # "p_claim") =>
             IF entries_produced < TOTAL_IMAGES
               THEN /\ entry_num'[p] = next_entry_to_produce
                    /\ next_entry_to_produce' = next_entry_to_produce + 1
                    /\ entries_produced' = entries_produced + 1
                    /\ ppc'[p] = "p_wait_empty"
               ELSE /\ ppc'[p] = "exit"
                    /\ UNCHANGED <<counters, entry_num, claimLog>>
       ]_vars

\* TOTAL_IMAGES claims have been made, the two producers hold the last two
\* numbers
C8_Witness ==
  /\ Len(claimLog) = TOTAL_IMAGES
  /\ entry_num[1] >= 0 /\ entry_num[2] >= 0
  /\ {entry_num[1], entry_num[2]} = {TOTAL_IMAGES - 2, TOTAL_IMAGES - 1}

(***************************************************************************)
(* C9  The queue is FIFO in the order of the puts' critical sections:      *)
(* every successful get returns the oldest record put and not yet got, and *)
(* the ring holds the records put and not yet got in put order.            *)
(***************************************************************************)
C9_Fifo ==
  /\ [](fifo = RingSeq)
  /\ [][\A c \in Consumers :
          (cpc[c] = "c_get" /\ cpc'[c] = "c_post_empty") =>
             (fifo # <<>> /\ centry'[c] = Head(fifo) /\ fifo' = Tail(fifo))
       ]_vars

\* A consumer has been handed sequence number 1, which was put first, while
\* number 0, put after it, is still the only record queued
C9_Witness ==
  /\ \E c \in Consumers : cpc[c] = "c_post_empty" /\ centry[c].sequence_num = 1
  /\ Len(fifo) = 1 /\ fifo[1].sequence_num = 0

(***************************************************************************)
(* C10  Once the fetch for a claimed number k has failed (no response, or  *)
(* a response with another sequence number), k is not claimed or fetched   *)
(* again and is never enqueued, entries_consumed stays below TOTAL_IMAGES, *)
(* no consumer exits and the run does not return.                          *)
(***************************************************************************)
C10_DroppedNeverRecovered ==
  /\ \A k \in dropped :
       /\ fetches[k] = 1
       /\ Cardinality({i \in 1..Len(claimLog) : claimLog[i] = k}) = 1
       /\ \A p \in Producers : entry_num[p] # k
       /\ CountOf(putLog, k) = 0
       /\ next_entry_to_produce > k
  /\ dropped # {} =>
       /\ entries_consumed < TOTAL_IMAGES
       /\ \A c \in Consumers : cpc[c] \notin {"c_wake", "exit"}
       /\ ~Returned

\* A fetch has failed, every producer has exited, the orchestrator is in
\* its consumer join and every consumer is blocked on the filled semaphore
C10_Witness ==
  /\ dropped # {}
  /\ AllProducersExited
  /\ run = "wait_consumers"
  /\ filled = 0 /\ count = 0
  /\ num_consumers = 2
  /\ \A c \in Consumers : cpc[c] = "c_wait_filled"

(***************************************************************************)
(* C11  Once entries_consumed >= TOTAL_IMAGES every forked consumer        *)
(* eventually exits, wherever it is: at the top of its loop, past the done *)
(* check and about to wait, or blocked on sems[2].  A consumer exits only  *)
(* by its done check, and the step in which it exits posts sems[2] exactly *)
(* once; an exited consumer stays exited.                                  *)
(***************************************************************************)
C11_ConsumersCascadeOut ==
  /\ (entries_consumed >= TOTAL_IMAGES) ~> AllConsumersExited
  /\ [][\A c \in Consumers :
          /\ (cpc[c] # "exit" /\ cpc'[c] = "exit") =>
                (cpc[c] = "c_wake" /\ filled' = filled + 1)
          /\ cpc[c] = "exit" => cpc'[c] = "exit"
       ]_vars

\* All fragments are consumed, one consumer has left, and the other, which
\* was blocked on sems[2], has been woken by it and finds the ring empty
C11_Witness ==
  /\ entries_consumed >= TOTAL_IMAGES
  /\ cpc[1] = "exit" /\ cpc[2] = "c_get"
  /\ count = 0 /\ filled = 0

(***************************************************************************)
(* Buffers and results the properties of the PNG functions speak about     *)
(***************************************************************************)
\* signature || IHDR || IDAT || IEND with the stored CRCs good (TRUE) or
\* changed (FALSE) as crcs says
Typed(crcs, width) ==
  ThreeChunks(<<IHDR, crcs[1]>>, <<IDAT, crcs[2]>>, <<IEND, crcs[3]>>, width)

CrcFlags == BOOLEAN \X BOOLEAN \X BOOLEAN

\* Three well-framed chunks whose types are not IHDR, IDAT, IEND in order
WrongTypeInputs ==
  {ThreeChunks(c1, c2, c3, w) : c1 \in ChunkChoices, c2 \in ChunkChoices,
                                c3 \in ChunkChoices, w \in Widths}
  \ {Typed(crcs, w) : crcs \in CrcFlags, w \in Widths}

\* A well-formed PNG followed by more bytes or by a fourth chunk
ExtraInputs ==
  {WellFormed(w) \o Zeros(k) : w \in Widths, k \in 1..MaxExtra}
  \cup {WellFormed(w) \o EncodeChunk(IEND, <<>>, TRUE) : w \in Widths}

\* The signature followed by no, one or two chunks of a well-formed PNG
FewerInputs == {SubSeq(WellFormed(w), 1, k) : w \in Widths, k \in {8, 33, 48}}

\* The call applied was parse_png: pngcore_parse_raw on the loaded chunks,
\* or the public pngcore_load_buffer
ParseCalled == out.call \in {"pngcore_parse_raw", "pngcore_load_buffer"}

\* The call returned no structure, and left the error wrong-chunk
RejectedWrongChunk ==
  /\ out.r.ret = NULL
  /\ out.r.code = IF out.call = "pngcore_load_buffer"
                    THEN "PNGCORE_ERR_WRONG_CHUNK" ELSE ERR_WRONG_CHUNK

(***************************************************************************)
(* C15  A CRC mismatch is not fatal for any of the three chunks: for a     *)
(* buffer of three chunks IHDR, IDAT, IEND of which at least one has a     *)
(* stored CRC that differs from the CRC of type || payload, parsing        *)
(* returns a structure with all three chunks present, the IHDR fields and  *)
(* the IDAT payload as in the buffer, and the mismatch recorded in the     *)
(* error.                                                                  *)
(***************************************************************************)
C15_CrcMismatchNonFatal ==
  out.call = "pngcore_parse_raw" =>
    \A crcs \in CrcFlags, w \in Widths :
      (in_buf = Typed(crcs, w) /\ crcs # <<TRUE, TRUE, TRUE>>) =>
         /\ out.r.ret # NULL
         /\ out.r.ret.ihdr # NULL
         /\ out.r.ret.ihdr.p_data =
              [width |-> w, height |-> 6, bit_depth |-> 8, color_type |-> 6,
               compression |-> 0, filter |-> 0, interlace |-> 0]
         /\ out.r.ret.idat # NULL
         /\ out.r.ret.idat.p_data.data = ZStream(0, 1)
         /\ out.r.ret.iend # NULL
         /\ out.r.code = ERR_CRC_MISMATCH

(***************************************************************************)
(* C16  Parsing a well-formed three-chunk PNG whose IHDR stored CRC has    *)
(* been changed returns a structure, reports the CRC mismatch to the       *)
(* caller, and leaves width, height, bit depth and color type readable     *)
(* with the values of the buffer: through pngcore_parse_raw and through    *)
(* pngcore_load_buffer with the accessors pngcore_get_*.                   *)
(***************************************************************************)
C16_IhdrCrcCorrupted ==
  \A w \in Widths :
    in_buf = Typed(<<FALSE, TRUE, TRUE>>, w) =>
      /\ out.call = "pngcore_parse_raw" =>
           /\ out.r.ret # NULL
           /\ out.r.code = ERR_CRC_MISMATCH
           /\ out.r.ret.ihdr.p_data.width = w
           /\ out.r.ret.ihdr.p_data.height = 6
           /\ out.r.ret.ihdr.p_data.bit_depth = 8
           /\ out.r.ret.ihdr.p_data.color_type = 6
      /\ out.call = "pngcore_load_buffer" =>
           /\ out.r.ret # NULL
           /\ out.r.code = "PNGCORE_ERR_CRC_MISMATCH"
           /\ pngcore_get_width(out.r.ret) = w
           /\ pngcore_get_height(out.r.ret) = 6
           /\ pngcore_get_bit_depth(out.r.ret) = 8
           /\ pngcore_get_color_type(out.r.ret) = 6

(***************************************************************************)
(* C17  pngcore_load_raw_chunk at offset o of a buffer of n bytes succeeds *)
(* iff o + 8 + length + 4 <= n, length being the big-endian number at o;   *)
(* the chunk it returns holds that length, the type, the payload and the   *)
(* stored CRC as they are in the buffer; otherwise it fails with ERR.      *)
(* pngcore_load_raw_png reads each next chunk from o + 12 + length.  A     *)
(* buffer with the signature that does not hold three such chunks (as one  *)
(* whose last CRC bytes are missing) gives ERR and no structure, from      *)
(* pngcore_load_raw_png, pngcore_parse_raw and pngcore_load_buffer alike.  *)
(***************************************************************************)
C17_ReadChunkFraming ==
  LET n == Len(in_buf)
      Fits(o) == o + 8 <= n /\ o + 8 + from_be_buffer(in_buf, o) + 4 <= n
      After(o) == o + 12 + from_be_buffer(in_buf, o)
      Framed == /\ Fits(8)
                /\ Fits(After(8))
                /\ Fits(After(After(8)))
  IN  /\ out.call = "pngcore_load_raw_chunk" =>
           LET o == out.offset
           IN  /\ (out.r.ret # NULL) <=> Fits(o)
               /\ out.r.ret # NULL =>
                    /\ out.r.ret.length = from_be_buffer(in_buf, o)
                    /\ out.r.ret.type = SubSeq(in_buf, o + 5, o + 8)
                    /\ out.r.ret.p_data = SubSeq(in_buf, o + 9, o + 8 + out.r.ret.length)
                    /\ out.r.ret.crc = from_be_buffer(in_buf, o + 8 + out.r.ret.length)
                    /\ out.r.code = SUCCESS
               /\ out.r.ret = NULL => out.r.code = ERR
      /\ (out.call = "pngcore_load_raw_png" /\ out.r.ret # NULL) =>
           LET o1 == 8
               o2 == After(o1)
               o3 == After(o2)
           IN  /\ Framed
               /\ \A i \in 1..3 :
                    LET o == <<o1, o2, o3>>[i]
                    IN  /\ out.r.ret.chunks[i].length = from_be_buffer(in_buf, o)
                        /\ out.r.ret.chunks[i].type = SubSeq(in_buf, o + 5, o + 8)
      /\ (out.call \in {"pngcore_load_raw_png", "pngcore_parse_raw", "pngcore_load_buffer"}
            /\ n >= 8 /\ SubSeq(in_buf, 1, 8) = PNG_SIG /\ ~Framed) =>
           /\ out.r.ret = NULL
           /\ out.r.code = IF out.call = "pngcore_load_buffer" THEN "PNGCORE_ERR" ELSE ERR

\* A well-formed PNG with its final CRC byte removed was handed to
\* pngcore_load_buffer, which returned NULL
C17_Witness ==
  /\ out.call = "pngcore_load_buffer"
  /\ \E w \in Widths : in_buf = SubSeq(WellFormed(w), 1, Len(WellFormed(w)) - 1)
  /\ out.r.ret = NULL

(***************************************************************************)
(* C18  Parsing a buffer whose three chunks are not typed IHDR, IDAT, IEND *)
(* in exactly that order fails with the wrong-chunk error and returns no   *)
(* structure, whatever the stored CRCs of the chunks are.                  *)
(***************************************************************************)
C18_WrongTypesRejected ==
  (ParseCalled /\ in_buf \in WrongTypeInputs) => RejectedWrongChunk

(***************************************************************************)
(* C19  Parsing accepts exactly three chunks: a well-formed PNG followed   *)
(* by more bytes or by another chunk, and a buffer with fewer than three   *)
(* chunks after the signature, are rejected with the wrong-chunk error.    *)
(***************************************************************************)
C19_ExactlyThreeChunks ==
  (ParseCalled /\ in_buf \in (ExtraInputs \cup FewerInputs)) => RejectedWrongChunk

(***************************************************************************)
(* C21  Round trip.  For a structure p with the three chunks, the file     *)
(* pngcore_save_file writes begins with the eight signature bytes and      *)
(* holds three chunks IHDR (13 bytes), IDAT, IEND (0 bytes), each with a   *)
(* stored CRC equal to the CRC of its type || payload, and nothing more.   *)
(* Parsing the file succeeds without a CRC mismatch and gives the seven    *)
(* IHDR fields and the IDAT payload of p, through pngcore_parse_raw and    *)
(* through pngcore_load_file.                                              *)
(***************************************************************************)
C21_RoundTrip ==
  LET n == Len(in_buf)
      p == image.internal
      LenAt(o) == in_buf[o + 1] * 16777216 + in_buf[o + 2] * 65536
                    + in_buf[o + 3] * 256 + in_buf[o + 4]
      TypeAt(o) == SubSeq(in_buf, o + 5, o + 8)
      CrcGood(o) == LenAt(o + 8 + LenAt(o)) =
                      pngcore_crc(SubSeq(in_buf, o + 5, o + 8 + LenAt(o)))
      o1 == 8
      o2 == o1 + 12 + LenAt(o1)
      o3 == o2 + 12 + LenAt(o2)
  IN  /\ (out.call = "pngcore_save_file" /\ IsComplete(image)) =>
           /\ out.r.ret = 0
           /\ SubSeq(in_buf, 1, 8) = <<137, 80, 78, 71, 13, 10, 26, 10>>
           /\ TypeAt(o1) = <<73, 72, 68, 82>> /\ LenAt(o1) = 13 /\ CrcGood(o1)
           /\ TypeAt(o2) = <<73, 68, 65, 84>> /\ CrcGood(o2)
           /\ LenAt(o2) = Len(p.idat.p_data.data)
           /\ TypeAt(o3) = <<73, 69, 78, 68>> /\ LenAt(o3) = 0 /\ CrcGood(o3)
           /\ n = o3 + 12
      /\ out.call = "pngcore_parse_raw" =>
           /\ out.r.ret # NULL
           /\ out.r.code = SUCCESS
           /\ out.r.ret.ihdr.p_data = p.ihdr.p_data
           /\ out.r.ret.idat.p_data.data = p.idat.p_data.data
           /\ out.r.ret.idat.p_data.length = p.idat.p_data.length
           /\ out.r.ret.iend # NULL
      /\ out.call = "pngcore_load_file" =>
           /\ out.r.ret # NULL
           /\ out.r.code = "PNGCORE_SUCCESS"
           /\ out.r.ret.internal.ihdr.p_data = p.ihdr.p_data
           /\ out.r.ret.internal.idat.p_data.data = p.idat.p_data.data
           /\ out.r.ret.internal.iend # NULL

\* A structure of width 16909060 (bytes 1 2 3 4), height 2, Adam7 interlace
\* and a five-byte IDAT payload was written and read back
C21_Witness ==
  /\ out.call = "pngcore_load_file"
  /\ out.r.ret # NULL
  /\ image.internal.ihdr.p_data.width = 16909060
  /\ image.internal.ihdr.p_data.interlace = 1
  /\ image.internal.idat.p_data.data = <<1, 2, 3, 4, 5>>
  /\ pngcore_get_width(out.r.ret) = 16909060

(***************************************************************************)
(* C22  pngcore_is_png_buf at offset o of a buffer of n bytes returns true *)
(* iff o + 8 <= n and the eight bytes from o are 89 50 4E 47 0D 0A 1A 0A.  *)
(* Parsing a buffer of at least 8 bytes whose first eight are not these    *)
(* returns no structure and the not-a-PNG error, from                      *)
(* pngcore_load_raw_png, pngcore_parse_raw and pngcore_load_buffer alike.  *)
(***************************************************************************)
C22_SignatureTest ==
  LET n == Len(in_buf)
      SigAt(o) == /\ o + 8 <= n
                  /\ \A i \in 1..8 :
                       in_buf[o + i] = <<137, 80, 78, 71, 13, 10, 26, 10>>[i]
  IN  /\ out.call = "pngcore_is_png_buf" => (out.r <=> SigAt(out.offset))
      /\ (out.call \in {"pngcore_load_raw_png", "pngcore_parse_raw",
                         "pngcore_load_buffer"}
            /\ n >= 8 /\ ~SigAt(0)) =>
           /\ out.r.ret = NULL
           /\ out.r.code = IF out.call = "pngcore_load_buffer"
                              THEN "PNGCORE_ERR_NOT_PNG" ELSE ERR_NOT_A_PNG

\* A well-formed PNG whose eighth signature byte was changed was handed to
\* pngcore_load_buffer, which returned NULL and the not-a-PNG error
C22_Witness ==
  /\ out.call = "pngcore_load_buffer"
  /\ in_buf = [WellFormed(400) EXCEPT ![8] = 11]
  /\ out.r.ret = NULL
  /\ out.r.code = "PNGCORE_ERR_NOT_PNG"

(***************************************************************************)
(* C23  pngcore_validate returns 1 iff the structure holds the three       *)
(* chunks, width > 0, height > 0, bit depth is one of 1, 2, 4, 8, 16 and   *)
(* color type one of 0, 2, 3, 4, 6; for every other structure, and for     *)
(* NULL, it returns 0.                                                     *)
(***************************************************************************)
C23_Validate ==
  out.call = "pngcore_validate" =>
    /\ out.r \in {0, 1}
    /\ out.r = 1 <=>
         /\ IsComplete(image)
         /\ image.internal.ihdr.p_data.width > 0
         /\ image.internal.ihdr.p_data.height > 0
         /\ image.internal.ihdr.p_data.bit_depth \in {1, 2, 4, 8, 16}
         /\ image.internal.ihdr.p_data.color_type \in {0, 2, 3, 4, 6}

\* A 2 x 2 RGBA structure of bit depth 16 was validated, with result 1
C23_Witness ==
  /\ out.call = "pngcore_validate"
  /\ out.r = 1
  /\ image.internal.ihdr.p_data.width = 2
  /\ image.internal.ihdr.p_data.height = 2
  /\ image.internal.ihdr.p_data.bit_depth = 16
  /\ image.internal.ihdr.p_data.color_type = 6

(***************************************************************************)
(* C24  pngcore_set_raw_data (pngcore_deflate_idat) on a structure with    *)
(* the three chunks returns, having replaced the IDAT payload by the       *)
(* compressed data and the IDAT length by their size, with every IHDR      *)
(* field and IEND as before the call.  The structure                       *)
(* pngcore_concurrent_get_result builds has IHDR                           *)
(* (400, 6 * TOTAL_IMAGES, 8, RGBA, 0, 0, 0).                              *)
(***************************************************************************)
C24_DeflateFrame ==
  /\ out.call = "pngcore_set_raw_data" =>
       /\ out.returned
       /\ image.internal.ihdr = out.arg.internal.ihdr
       /\ image.internal.iend = out.arg.internal.iend
       /\ image.internal.idat.p_data.length = out.def_len
       /\ Len(image.internal.idat.p_data.data) = out.def_len
  /\ out.call = "pngcore_concurrent_get_result" =>
       /\ out.returned
       /\ image # NULL
       /\ image.internal.ihdr.p_data =
            [width |-> 400, height |-> 6 * TOTAL_IMAGES, bit_depth |-> 8,
             color_type |-> 6, compression |-> 0, filter |-> 0,
             interlace |-> 0]
       /\ image.internal.idat.p_data.length = out.def_len

(***************************************************************************)
(* C25  Mutual exclusion.  At most one worker is inside a critical section *)
(* of the mutex sems[0] at any time; the ring (head, tail, count, data) is *)
(* read and changed only by a step of a worker that holds the mutex        *)
(* (inside pngcore_cbuf_add or pngcore_cbuf_get), and the counters         *)
(* next_entry_to_produce, entries_produced and entries_consumed are        *)
(* changed only by a step of a worker that holds it (the claim of a        *)
(* producer, the mark of a consumer).                                      *)
(***************************************************************************)
C25_HolderSteps(positionsP, positionsC) ==
  \/ \E p \in Producers : /\ ppc[p] \in positionsP
                          /\ <<"producer", p>> \in Holders
                          /\ ppc'[p] # ppc[p]
  \/ \E c \in Consumers : /\ cpc[c] \in positionsC
                          /\ <<"consumer", c>> \in Holders
                          /\ cpc'[c] # cpc[c]

C25_MutualExclusion ==
  /\ [](/\ Cardinality(Holders) <= 1
        /\ mutex + Cardinality(Holders) = 1)
  /\ [][/\ cbuf' # cbuf => C25_HolderSteps({"p_add"}, {"c_get"})
        /\ counters' # counters => C25_HolderSteps({"p_claim"}, {"c_mark"})]_vars

\* A producer is writing a record into the ring while another producer and a
\* consumer are held at the mutex
C25_Witness ==
  /\ Cardinality(Holders) = 1
  /\ \E p \in Producers, q \in Producers, c \in Consumers :
        /\ ppc[p] = "p_add"
        /\ ppc[q] \in {"p_lock", "p_add_lock"}
        /\ cpc[c] \in {"c_lock", "c_get_lock", "c_mark_lock"}
        /\ mutex = 0

(***************************************************************************)
(* C26  Producers always finish.  Under fair scheduling, with every fetch  *)
(* returning (a good response, a failure, a wrong number or junk), every   *)
(* producer eventually sees entries_produced >= TOTAL_IMAGES and exits,    *)
(* and the orchestrator gets past its wait for the producers: whatever     *)
(* fails, and also with fewer slots than producers, a run that hangs hangs *)
(* in the wait for the consumers.                                          *)
(***************************************************************************)
C26_ProducersFinish ==
  /\ <>[](AllProducersExited /\ AllProduced(entries_produced))
  /\ <>[](run \in {"wait_consumers", "returned"})

\* All producers are gone after a failed fetch, with fewer slots than
\* producers, and the orchestrator waits for consumers that wait for a record
C26_Witness ==
  /\ dropped # {}
  /\ buffer_size < num_producers
  /\ AllProducersExited
  /\ run = "wait_consumers"
  /\ \A c \in Consumers : ForkedC(c) => cpc[c] = "c_wait_filled"
  /\ filled = 0

(***************************************************************************)
(* C27  The order of the fetch and the wait for a free slot in a producer. *)
(***************************************************************************)
\* The producers whose fetch is in flight
InFlight == {p \in Producers : ppc[p] = "p_fetch"}

\* The producers that have taken a free slot and not yet filled it
Reserved == {p \in Producers : ppc[p] \in {"p_fetch", "p_add_lock", "p_add"}}

\* The consumers that have emptied a slot and not yet signalled it
Releasing == {c \in Consumers : cpc[c] = "c_post_empty"}

C29_EmptyGet ==
  [][\A c \in Consumers :
        (cpc[c] = "c_get" /\ cpc'[c] # "c_get" /\ count <= 0)
          => /\ cpc'[c] = "c_lock"
             /\ UNCHANGED <<head, tail, count, data>>
             /\ UNCHANGED <<idat_buf, counters>>
             /\ UNCHANGED <<empty, filled>>
             /\ centry'[c] = centry[c]
             /\ getLog' = getLog]_vars

\* All fragments are consumed, one consumer has left and posted the
\* wake-up token, and the other has taken the token, found the ring empty
\* and is back at the top of its loop
C29_Witness ==
  /\ entries_consumed = TOTAL_IMAGES
  /\ count = 0 /\ filled = 0
  /\ \E c \in Consumers, d \in Consumers :
        /\ ForkedC(c) /\ ForkedC(d)
        /\ cpc[c] = "exit"
        /\ cpc[d] = "c_lock"

(***************************************************************************)
(* C30  When a fragment taken from the ring fails to parse, the error      *)
(* stays with that consumer.  The slot was released before the parse (the  *)
(* consumer comes to the parse from its post of sems[1]); the failing step *)
(* leaves the raster, the ring, the semaphores, the three counters and     *)
(* every other worker as they were and sends the consumer to the top of    *)
(* its loop; and entries_consumed never counts such a fragment: it is the  *)
(* number of fragments taken from the ring that parse, less those a        *)
(* consumer still holds.                                                   *)
(***************************************************************************)
ParsedCount(bag) ==
  LET hits == {e \in BagToSet(bag) : Parses(e)}
      RECURSIVE Sum(_)
      Sum(S) == IF S = {} THEN 0
                ELSE LET e == CHOOSE x \in S : TRUE
                     IN  CopiesIn(e, bag) + Sum(S \ {e})
  IN  Sum(hits)

Holding ==
  {c \in Consumers : /\ cpc[c] \in {"c_post_empty", "c_process", "c_mark_lock", "c_mark"}
                     /\ Parses(centry[c])}

C30_ParseErrorLocal ==
  /\ [](entries_consumed + Cardinality(Holding) = ParsedCount(getLog))
  /\ [][\A c \in Consumers :
          /\ (cpc'[c] = "c_process" /\ cpc[c] # "c_process")
                => (cpc[c] = "c_post_empty" /\ empty' = empty + 1)
          /\ (cpc[c] = "c_process" /\ cpc'[c] # "c_process" /\ ~Parses(centry[c]))
                => /\ cpc'[c] = "c_lock"
                   /\ UNCHANGED <<idat_buf, placed, reach>>
                   /\ UNCHANGED <<cbuf, sems, counters>>
                   /\ UNCHANGED <<plocal, run>>
                   /\ \A d \in Consumers \ {c} :
                         cpc'[d] = cpc[d] /\ centry'[d] = centry[d]]_vars

\* A fragment that does not parse was taken from the ring and let go of: no
\* consumer holds it, the raster block of its number is still zero, its slot
\* is free again and nothing was counted
C30_Witness ==
  /\ \E e \in BagToSet(getLog) :
        /\ ~Parses(e)
        /\ idat_buf[e.sequence_num] = 0
        /\ \A c \in Consumers : cpc[c] \in {"c_lock", "c_check", "c_wait_filled"}
  /\ BagCardinality(getLog) = 1
  /\ entries_consumed = 0
  /\ empty = buffer_size

(***************************************************************************)
(* C31  When the fetch of a producer fails or returns a number other than  *)
(* the claimed one, nothing is enqueued: the step leaves head, tail, count,*)
(* the slots and sems[2] unchanged, gives back the free slot the producer  *)
(* had taken (sems[1] goes up by one), leaves the counters alone, and puts *)
(* the producer at the top of its loop, where it claims the next number.   *)
(***************************************************************************)
C31_FailedFetchFrame ==
  [][\A p \in Producers :
        (ppc[p] = "p_fetch" /\ ppc'[p] # "p_fetch" /\ dropped' # dropped)
          => /\ dropped' = dropped \cup {entry_num[p]}
             /\ ppc'[p] = "p_lock"
             /\ UNCHANGED <<head, tail, count, data>>
             /\ UNCHANGED <<filled, mutex, putLog, fifo>>
             /\ empty' = empty + 1
             /\ UNCHANGED <<counters, idat_buf>>]_vars

\* The fetch of number 0 failed: nothing was enqueued, every slot is free
\* again and the producer has claimed number 1
C31_Witness ==
  /\ dropped = {0}
  /\ putLog = EmptyBag
  /\ count = 0 /\ head = 0 /\ filled = 0
  /\ empty = buffer_size
  /\ \E p \in Producers : ppc[p] = "p_wait_empty" /\ entry_num[p] = 1

(***************************************************************************)
(* C32  next_entry_to_produce, entries_produced and entries_consumed never *)
(* go down: every step of every worker (and of the orchestrator) leaves    *)
(* each of them as it was or adds exactly 1 to it.                         *)
(***************************************************************************)
C32_CountersMonotone ==
  [][/\ next_entry_to_produce' \in {next_entry_to_produce, next_entry_to_produce + 1}
     /\ entries_produced' \in {entries_produced, entries_produced + 1}
     /\ entries_consumed' \in {entries_consumed, entries_consumed + 1}]_vars

\* All three counters have moved, one of them to its end, and workers are
\* still running
C32_Witness ==
  /\ entries_produced = TOTAL_IMAGES
  /\ next_entry_to_produce = TOTAL_IMAGES
  /\ entries_consumed = 1
  /\ \E c \in Consumers : cpc[c] = "c_mark"

(***************************************************************************)
(* C33  The sequence number of a response is -1 until a header line that   *)
(* begins with "X-Ece252-Fragment: " is received, and after a line         *)
(* "X-Ece252-Fragment: <n>\r\n" it is the decimal integer n.  A response   *)
(* in which no line begins with the prefix has number -1, which equals no  *)
(* claimed number k >= 0: the producer's test fails and the response is    *)
(* not enqueued.                                                           *)
(***************************************************************************)
BeginsWithPrefix(line) ==
  /\ Len(line) >= Len(FRAGMENT_HEADER)
  /\ \A i \in 1..Len(FRAGMENT_HEADER) : line[i] = FRAGMENT_HEADER[i]

PrefixLines == {i \in DOMAIN http.received : BeginsWithPrefix(http.received[i])}

C33_SequenceHeader ==
  /\ PrefixLines = {} => http.data.seq = -1
  /\ \A i \in PrefixLines : \A n \in 0..(2 * SOURCE_TOTAL_IMAGES + 7) :
        (/\ \A j \in PrefixLines : j <= i
         /\ http.received[i] = FragmentLine(n)) => http.data.seq = n
  /\ (out.call = "pngcore_http_get" /\ PrefixLines = {}) =>
        (out.entry_num >= 0 /\ ~out.enqueued)

\* After a long header that is not the fragment header, the line for the
\* last fragment has set the number, and the producer takes the response
C33_Witness ==
  /\ Len(http.received) = 2
  /\ ~BeginsWithPrefix(http.received[1]) /\ Len(http.received[1]) > Len(FRAGMENT_HEADER)
  /\ http.received[2] = FragmentLine(TOTAL_IMAGES - 1)
  /\ http.data.seq = TOTAL_IMAGES - 1
  /\ out.call = "pngcore_http_get" /\ out.enqueued

(***************************************************************************)
(* C34  The IHDR payload is exactly 13 bytes: pngcore_parse_ihdr reads the *)
(* payload bytes 0..12 of the first chunk only when its declared length is *)
(* 13; a chunk typed IHDR with any other length, the empty one with its    *)
(* unallocated payload included, is rejected: the call returns NULL.       *)
(***************************************************************************)
C34_IhdrLengthChecked ==
  (/\ out.call = "pngcore_parse_ihdr"
   /\ out.chunk.type = IHDR
   /\ out.chunk.length # DATA_IHDR_SIZE)
     => (out.returned /\ out.r.ret = NULL)

(***************************************************************************)
(* C35  Slot conservation.  In every reachable state the value of sems[1]  *)
(* plus count plus the producers that hold a reserved slot (after their    *)
(* wait on sems[1], before the end of pngcore_cbuf_add or the post of the  *)
(* failure path) plus the consumers that have taken a record and not yet   *)
(* posted sems[1] is buffer_size; so at most buffer_size producers are     *)
(* fetching at once.                                                       *)
(***************************************************************************)
C35_SlotConservation ==
  /\ empty + count + Cardinality(Reserved) + Cardinality(Releasing) = buffer_size
  /\ empty \in 0..buffer_size
  /\ Cardinality({p \in Producers : ppc[p] = "p_fetch"}) <= buffer_size

\* Two slots: one is reserved by a producer, the record of the other is
\* with a consumer that has not yet posted sems[1]; none is free or filled
C35_Witness ==
  /\ buffer_size = 2
  /\ empty = 0 /\ count = 0
  /\ Cardinality(Reserved) = 1
  /\ Cardinality(Releasing) = 1
  /\ dropped # {}

(***************************************************************************)
(* C36  While entries_consumed < TOTAL_IMAGES, the value of sems[2] plus   *)
(* the consumers that have passed the wait on sems[2] and not yet executed *)
(* pngcore_cbuf_get is at most count.  Hence before termination a          *)
(* consumer's pngcore_cbuf_get never finds the ring empty: a consumer that *)
(* is in pngcore_cbuf_get with an empty ring got there through a wake-up   *)
(* token, posted after entries_consumed reached TOTAL_IMAGES.              *)
(***************************************************************************)
Passed == {c \in Consumers : cpc[c] \in {"c_get_lock", "c_get"}}

C36_FilledBelowCount ==
  /\ entries_consumed < TOTAL_IMAGES
        => filled + Cardinality(Passed) <= count
  /\ \A c \in Consumers :
        (cpc[c] = "c_get" /\ count <= 0) => entries_consumed >= TOTAL_IMAGES

\* The last record is in the ring and a consumer that passed the wait is
\* about to take it, while the other consumer waits on sems[2]
C36_Witness ==
  /\ entries_consumed = TOTAL_IMAGES - 1
  /\ count = 1 /\ filled = 0
  /\ \E c \in Consumers, d \in Consumers :
        cpc[c] = "c_get" /\ cpc[d] = "c_wait_filled"

(***************************************************************************)
(* C37  In every reachable state with entries_consumed = TOTAL_IMAGES the  *)
(* ring is empty, each of the TOTAL_IMAGES numbers has been put into the   *)
(* ring once and taken out once, and no producer holds a reserved slot or  *)
(* is fetching; so a consumer that leaves (it saw entries_consumed >=      *)
(* TOTAL_IMAGES) leaves no record behind in the ring or in the hands of    *)
(* another consumer.                                                       *)
(***************************************************************************)
C37_Drained ==
  /\ entries_consumed = TOTAL_IMAGES =>
        /\ count = 0 /\ fifo = <<>>
        /\ \A k \in SeqNums : CountOf(putLog, k) = 1 /\ CountOf(getLog, k) = 1
        /\ BagCardinality(putLog) = TOTAL_IMAGES
        /\ BagCardinality(getLog) = TOTAL_IMAGES
        /\ Reserved = {}
        /\ \A p \in Producers : ppc[p] \notin {"p_wait_empty", "p_fetch"}
  /\ \A c \in Consumers :
        cpc[c] \in {"c_wake", "exit"} =>
           /\ entries_consumed = TOTAL_IMAGES
           /\ count = 0
           /\ \A d \in Consumers :
                 cpc[d] \notin {"c_post_empty", "c_process", "c_mark_lock", "c_mark"}

\* The last fragment has just been counted: no consumer has left yet, and a
\* producer has still to find out that all numbers are claimed
C37_Witness ==
  /\ entries_consumed = TOTAL_IMAGES
  /\ \A c \in Consumers : cpc[c] \notin {"c_wake", "exit"}
  /\ \E p \in Producers : ppc[p] \in {"p_post_filled", "p_lock", "p_claim"}
  /\ num_consumers = 2 /\ num_producers = 2

(***************************************************************************)
(* C38  No worker waits on sems[1] or sems[2], fetches, or sleeps and      *)
(* parses while it holds the mutex, and no worker takes the mutex while it *)
(* holds it: every step that takes a unit of sems[1] or sems[2], fetches,  *)
(* processes a record or takes the mutex is a step of a worker that does   *)
(* not hold the mutex.  A worker that holds the mutex is never blocked,    *)
(* and its very next step gives the mutex back, on every path (the early   *)
(* exit of a producer, the done check, the empty ring included).           *)
(***************************************************************************)
C38_Moved == {<<"producer", p>> : p \in {q \in Producers : ppc'[q] # ppc[q]}}
             \cup {<<"consumer", c>> : c \in {d \in Consumers : cpc'[d] # cpc[d]}}

C38_HoldersAfter ==
  {<<"producer", p>> : p \in {q \in Producers : ppc'[q] \in {"p_claim", "p_add"}}}
  \cup {<<"consumer", c>> : c \in {d \in Consumers : cpc'[d] \in {"c_check", "c_get", "c_mark"}}}

C38_NoBlockingInMutex ==
  /\ [](/\ \A p \in Producers :
             /\ ppc[p] = "p_claim" => ENABLED producer_claim(p)
             /\ ppc[p] = "p_add" => ENABLED cbuf_add(p)
        /\ \A c \in Consumers :
             /\ cpc[c] = "c_check" => ENABLED consumer_check(c)
             /\ cpc[c] = "c_get" => ENABLED cbuf_get(c)
             /\ cpc[c] = "c_mark" => ENABLED consumer_mark(c))
  /\ [][/\ (\/ empty' < empty \/ filled' < filled \/ mutex' < mutex
            \/ fetches' # fetches
            \/ \E c \in Consumers : cpc[c] = "c_process" /\ cpc'[c] # "c_process")
           => C38_Moved \cap Holders = {}
        /\ mutex' < mutex => (mutex = 1 /\ Holders = {})
        /\ \A w \in C38_Moved \cap Holders :
              /\ mutex' = mutex + 1
              /\ w \notin C38_HoldersAfter]_vars

\* A producer holds the mutex on its way out (all numbers are claimed)
\* while a consumer waits for the mutex and another waits on sems[2]
C38_Witness ==
  /\ mutex = 0
  /\ \E p \in Producers : ppc[p] = "p_claim" /\ AllProduced(entries_produced)
  /\ \E c \in Consumers, d \in Consumers :
        /\ cpc[c] \in {"c_lock", "c_get_lock", "c_mark_lock"}
        /\ cpc[d] = "c_wait_filled" /\ filled = 0

(***************************************************************************)
(* C39  Ring index invariant.  In every reachable state 0 <= head <        *)
(* buffer_size, 0 <= tail < buffer_size and head = (tail + count) mod      *)
(* buffer_size; so while count < buffer_size the slot the next             *)
(* pngcore_cbuf_add writes is none of the count slots that hold a record   *)
(* not yet read, and a producer inside pngcore_cbuf_add always finds       *)
(* count < buffer_size.                                                    *)
(***************************************************************************)
Unread == {(tail + i) % buffer_size : i \in 0..(count - 1)}

C39_RingIndex ==
  /\ head \in 0..(buffer_size - 1)
  /\ tail \in 0..(buffer_size - 1)
  /\ head = (tail + count) % buffer_size
  /\ count < buffer_size => head \notin Unread
  /\ \A p \in Producers :
        ppc[p] = "p_add" => (count < buffer_size /\ head \notin Unread)

\* The indices have wrapped: the one unread record is in the last slot and
\* a producer is about to write slot 0
C39_Witness ==
  /\ buffer_size = 2
  /\ tail = 1 /\ count = 1 /\ head = 0
  /\ \E p \in Producers : ppc[p] = "p_add"

(***************************************************************************)
(* Derived notions for the properties of the fragment bodies               *)
(***************************************************************************)
\* The number of inflations that placed a whole fragment in the raster
RECURSIVE PlacedUpTo(_)
PlacedUpTo(k) == IF k < 0 THEN 0 ELSE placed[k] + PlacedUpTo(k - 1)
PlacedCount == PlacedUpTo(TOTAL_IMAGES - 1)

\* The consumers that have finished placing a record and not yet counted it
Marking == {c \in Consumers : cpc[c] \in {"c_mark_lock", "c_mark"}}

\* A record whose body has the signature and three framed chunks whose
\* types are not IHDR, IDAT, IEND in this order
WrongTypes(e) ==
  /\ Parses(e)
  /\ [i \in 1..3 |-> LoadEntry(e).chunks[i].type] # <<IHDR, IDAT, IEND>>

(***************************************************************************)
(* C28  The consumer places a fragment iff offset + INF_SIZE <= BUF_SIZE   *)
(* (the length of the raster segment), with offset = sequence_num *        *)
(* INF_SIZE: the strict < of the code decides as <= does for every offset  *)
(* that is a multiple of INF_SIZE, up to and beyond the end of the raster. *)
(* The check passes for every number below the source's TOTAL_IMAGES (50)  *)
(* and below the model's, so no fragment with a number in range is dropped *)
(* by it: a consumer that has parsed a fragment whose payload inflates has *)
(* written it to the raster.                                               *)
(***************************************************************************)
C28_BoundsCheck ==
  /\ \A k \in 0..(BUF_SIZE \div INF_SIZE + 1) :
        InBounds(RasterOffset(k)) <=> (RasterOffset(k) + INF_SIZE <= BUF_SIZE)
  /\ \A k \in 0..(SOURCE_TOTAL_IMAGES - 1) : InBounds(RasterOffset(k))
  /\ \A k \in SeqNums : InBounds(RasterOffset(k))
  /\ \A c \in Marking :
        /\ centry[c].sequence_num \in SeqNums
        /\ Inflates(centry[c]) => placed[centry[c].sequence_num] >= 1

\* A consumer has placed the fragment with the last number
C28_Witness ==
  /\ placed[TOTAL_IMAGES - 1] = 1
  /\ \E c \in Marking : /\ centry[c].sequence_num = TOTAL_IMAGES - 1
                        /\ Inflates(centry[c])
  /\ idat_buf[TOTAL_IMAGES - 1] = pattern(TOTAL_IMAGES - 1)

(***************************************************************************)
(* C12  A consumer that processes sequence number k writes raster bytes    *)
(* only inside [k * INF_SIZE, (k + 1) * INF_SIZE), whatever length the     *)
(* IDAT payload inflates to: the bytes written for k end at or before      *)
(* (k + 1) * INF_SIZE, so writes for distinct numbers never overlap and    *)
(* none runs past the raster of TOTAL_IMAGES blocks.                       *)
(***************************************************************************)
C12_WritesStayInBlock ==
  \A k \in SeqNums :
    /\ reach[k] <= (k + 1) * INF_SIZE
    /\ reach[k] <= TOTAL_IMAGES * INF_SIZE

(***************************************************************************)
(* C13  Every record placed in the queue has length <= MAX_IMG_STRIP_SIZE: *)
(* a longer body is clamped, so the bytes copied into the record's data    *)
(* array never exceed its capacity.                                        *)
(***************************************************************************)
C13_BodyLengthClamped ==
  /\ \A e \in BagToSet(putLog) : e.length <= MAX_IMG_STRIP_SIZE
  /\ \A p \in Producers : pentry[p].length <= MAX_IMG_STRIP_SIZE

(***************************************************************************)
(* C14  entries_consumed counts the fragments placed whole in the raster:  *)
(* it never exceeds their number, and equals it whenever no consumer is    *)
(* between placing a fragment and counting it.  A fragment whose inflate   *)
(* or bounds check fails is dropped and not counted.                       *)
(***************************************************************************)
C14_ConsumedCountsPlaced ==
  /\ entries_consumed <= PlacedCount
  /\ Marking = {} => entries_consumed = PlacedCount

(***************************************************************************)
(* C20  A fragment whose body has the signature and three well-framed      *)
(* chunks whose types are not IHDR, IDAT, IEND in order is dropped by the  *)
(* consumer: nothing is written to the raster for it.                      *)
(***************************************************************************)
C20_WrongTypesDropped ==
  \A e \in BagToSet(getLog) :
    (WrongTypes(e) /\ e.sequence_num \in SeqNums) =>
       /\ placed[e.sequence_num] = 0
       /\ reach[e.sequence_num] = 0

=============================================================================
